---- MODULE Spec2Model ----
(***************************************************************************)
(* Model of the electrolyte-database data model                            *)
(* (src/proteuslib/edb/data_model.py): the ConfigGenerator family, the     *)
(* DataWrapper family, Base.add / Base.idaes_config / Base._merge and the  *)
(* inverse transform Component.from_idaes_config.                          *)
(*                                                                         *)
(* Python values are tagged records, so that values of different Python   *)
(* types are always comparable:                                            *)
(*   str   [t |-> "str",   s |-> "..."]     int  [t |-> "int", n |-> 1]    *)
(*   list  [t |-> "list",  e |-> <<...>>]   tuple [t |-> "tuple", e |-> .] *)
(*   dict  [t |-> "dict",  kv |-> << [k |-> key, v |-> value], ... >>]     *)
(*         (insertion ordered, as Python dicts are)                        *)
(*   framework objects [t |-> "obj", o |-> name], unit objects             *)
(*   [t |-> "unit", u |-> canonical text], None [t |-> "none"],            *)
(*   a reference to a dict object of the heap [t |-> "ref", a |-> addr].   *)
(* A raised exception is the value [t |-> "err", kind |-> class name].     *)
(***************************************************************************)
EXTENDS Integers, Sequences, FiniteSets, TLC

\* ------------------------------------------------------------------------
\* Python values
\* ------------------------------------------------------------------------
Str(s) == [t |-> "str", s |-> s]
IntV(n) == [t |-> "int", n |-> n]
Obj(o) == [t |-> "obj", o |-> o]
UnitObj(u) == [t |-> "unit", u |-> u]
Lst(e) == [t |-> "list", e |-> e]
Tup(e) == [t |-> "tuple", e |-> e]
Dct(kv) == [t |-> "dict", kv |-> kv]
Ref(a) == [t |-> "ref", a |-> a]
KV(k, v) == [k |-> k, v |-> v]
None == [t |-> "none"]
EmptyDict == Dct(<<>>)

Err(kind) == [t |-> "err", kind |-> kind]
IsErr(x) == x.t = "err"

IsStr(x) == x.t = "str"
IsDict(x) == x.t = "dict"
IsList(x) == x.t = "list"
IsTuple(x) == x.t = "tuple"

\* Python truthiness: `not x`
Falsy(x) ==
    \/ x.t = "none"
    \/ x.t = "str" /\ x.s = ""
    \/ x.t = "int" /\ x.n = 0
    \/ x.t \in {"list", "tuple"} /\ x.e = <<>>
    \/ x.t = "dict" /\ x.kv = <<>>

\* dict operations; keys are Python values, order is insertion order
Keys(d) == [i \in DOMAIN d.kv |-> d.kv[i].k]
KeySet(d) == {d.kv[i].k : i \in DOMAIN d.kv}
HasKey(d, k) == \E i \in DOMAIN d.kv : d.kv[i].k = k
IndexOf(d, k) == CHOOSE i \in DOMAIN d.kv : d.kv[i].k = k
Get(d, k) == d.kv[IndexOf(d, k)].v
Put(d, k, v) ==
    IF HasKey(d, k)
    THEN Dct([d.kv EXCEPT ![IndexOf(d, k)] = KV(k, v)])
    ELSE Dct(Append(d.kv, KV(k, v)))
Del(d, k) == Dct(SelectSeq(d.kv, LAMBDA p : p.k # k))

\* dict.update(other): other's items in other's order
RECURSIVE UpdateFrom(_, _, _)
UpdateFrom(d, other, i) ==
    IF i > Len(other.kv) THEN d
    ELSE UpdateFrom(Put(d, other.kv[i].k, other.kv[i].v), other, i + 1)
Update(d, other) == UpdateFrom(d, other, 1)

\* string-keyed shorthands
HasS(d, s) == HasKey(d, Str(s))
GetS(d, s) == Get(d, Str(s))
PutS(d, s, v) == Put(d, Str(s), v)
DelS(d, s) == Del(d, Str(s))

\* a local variable: the value is computed once and then used
With(v, F(_)) == F(v)
\* a call that may raise: the exception propagates, else the code goes on
Then(r, F(_)) == IF IsErr(r) THEN r ELSE F(r)

\* Python == on values: dicts compare without regard to order
RECURSIVE PyEq(_, _)
PyEq(a, b) ==
    IF a.t # b.t THEN FALSE
    ELSE IF a.t = "dict"
    THEN /\ KeySet(a) = KeySet(b)
         /\ Len(a.kv) = Len(b.kv)
         /\ \A k \in KeySet(a) : PyEq(Get(a, k), Get(b, k))
    ELSE IF a.t \in {"list", "tuple"}
    THEN /\ Len(a.e) = Len(b.e)
         /\ \A i \in DOMAIN a.e : PyEq(a.e[i], b.e[i])
    ELSE a = b

\* ------------------------------------------------------------------------
\* Strings
\* ------------------------------------------------------------------------
Letters == {"a","b","c","d","e","f","g","h","i","j","k","l","m","n","o","p",
            "q","r","s","t","u","v","w","x","y","z","A","B","C","D","E","F",
            "G","H","I","J","K","L","M","N","O","P","Q","R","S","T","U","V",
            "W","X","Y","Z"}
Digits == {"0","1","2","3","4","5","6","7","8","9"}
CharAt(s, i) == SubSeq(s, i, i)
StrTail(s, i) == SubSeq(s, i, Len(s))
EndsWith(s, suf) ==
    Len(s) >= Len(suf) /\ SubSeq(s, Len(s) - Len(suf) + 1, Len(s)) = suf

\* fnmatch.fnmatchcase(name, pat) for patterns made of literal characters
\* and `*` (the only glob character the substitution tables use)
RECURSIVE FnMatchCase(_, _)
FnMatchCase(name, pat) ==
    IF pat = "" THEN name = ""
    ELSE IF CharAt(pat, 1) = "*"
    THEN \/ FnMatchCase(name, StrTail(pat, 2))
         \/ name # "" /\ FnMatchCase(StrTail(name, 2), pat)
    ELSE /\ name # ""
         /\ CharAt(name, 1) = CharAt(pat, 1)
         /\ FnMatchCase(StrTail(name, 2), StrTail(pat, 2))

\* str.split("."): the dotted path as a sequence of segments
RECURSIVE SplitDots(_, _, _)
SplitDots(s, i, cur) ==
    IF i > Len(s) THEN <<cur>>
    ELSE IF CharAt(s, i) = "." THEN <<cur>> \o SplitDots(s, i + 1, "")
    ELSE SplitDots(s, i + 1, cur \o CharAt(s, i))
Split(s) == SplitDots(s, 1, "")

\* int(s) for a str of decimal digits; fails (ValueError) on anything else
DigitVal(c) ==
    CASE c = "0" -> 0 [] c = "1" -> 1 [] c = "2" -> 2 [] c = "3" -> 3
      [] c = "4" -> 4 [] c = "5" -> 5 [] c = "6" -> 6 [] c = "7" -> 7
      [] c = "8" -> 8 [] c = "9" -> 9
IsDigits(s) == s # "" /\ \A i \in 1..Len(s) : CharAt(s, i) \in Digits
RECURSIVE DigitsVal(_, _)
DigitsVal(s, acc) ==
    IF s = "" THEN acc
    ELSE DigitsVal(StrTail(s, 2), 10 * acc + DigitVal(CharAt(s, 1)))

\* ------------------------------------------------------------------------
\* Units: ConfigGenerator._build_units and str() of a unit object
\* ------------------------------------------------------------------------
\* the unit vocabulary of the unit namespace
UnitNames == {"dimensionless", "m", "kg", "s", "mol", "K", "J"}

\* re.sub(r"([A-Za-z]+)", r"U.\1", x).replace("U.None", "U.dimensionless")
\* followed by eval() against the unit namespace only, for expressions made
\* of names joined by `/` and `*`.  eval() first parses the whole text (a
\* SyntaxError wins over an unknown name), then resolves the names.
RECURSIVE UnitSyntaxOK(_, _, _)
UnitSyntaxOK(s, i, inName) ==
    IF i > Len(s) THEN inName
    ELSE IF CharAt(s, i) \in Letters THEN UnitSyntaxOK(s, i + 1, TRUE)
    ELSE IF CharAt(s, i) \in {"/", "*"} THEN inName /\ UnitSyntaxOK(s, i + 1, FALSE)
    ELSE FALSE

\* `cur` is the alphabetic run being read, `out` the canonical text so far
RECURSIVE EvalUnits(_, _, _, _)
EvalUnits(s, i, cur, out) ==
    LET name == IF cur = "None" THEN "dimensionless" ELSE cur
    IN  IF i > Len(s)
        THEN IF name \notin UnitNames THEN Err("AttributeError")
             ELSE UnitObj(out \o name)
        ELSE IF CharAt(s, i) \in Letters
        THEN EvalUnits(s, i + 1, cur \o CharAt(s, i), out)
        ELSE IF name \notin UnitNames THEN Err("AttributeError")
        ELSE EvalUnits(s, i + 1, "", out \o name \o CharAt(s, i))

_build_units(x) ==
    LET s == IF Falsy(x) THEN "dimensionless" ELSE x.s
    IN  IF ~Falsy(x) /\ ~IsStr(x) THEN Err("TypeError")
        ELSE IF ~UnitSyntaxOK(s, 1, FALSE) THEN Err("SyntaxError")
        ELSE EvalUnits(s, 1, "", "")

\* str(unit)
UnitToStr(u) == Str(u.u)

\* ------------------------------------------------------------------------
\* ConfigGenerator helpers
\* ------------------------------------------------------------------------
\* len(x) is defined for these types only
HasLen(x) == x.t \in {"list", "tuple", "dict", "str"}
PyLen(x) ==
    IF x.t = "dict" THEN Len(x.kv)
    ELSE IF x.t = "str" THEN Len(x.s)
    ELSE Len(x.e)
\* the sequence `for item in x` runs over
IterSeq(x) ==
    IF x.t = "dict" THEN Keys(x)
    ELSE IF x.t = "str" THEN [i \in 1..Len(x.s) |-> Str(CharAt(x.s, i))]
    ELSE x.e
Hashable(x) == x.t \notin {"list", "dict"}

\* for phase in val: for species, num in val[phase].items():
\*     table[(phase, species)] = num
RECURSIVE FlattenSpecies(_, _, _, _)
FlattenSpecies(table, phase, inner, j) ==
    IF j > Len(inner.kv) THEN table
    ELSE FlattenSpecies(Put(table, Tup(<<phase, inner.kv[j].k>>), inner.kv[j].v),
                        phase, inner, j + 1)
RECURSIVE FlattenPhases(_, _, _)
FlattenPhases(table, val, i) ==
    IF i > Len(val.kv) THEN table
    ELSE IF ~IsDict(val.kv[i].v) THEN Err("AttributeError")
    ELSE FlattenPhases(FlattenSpecies(table, val.kv[i].k, val.kv[i].v, 1), val, i + 1)
FlattenByPhase(val) ==
    IF ~IsDict(val) THEN Err("TypeError") ELSE FlattenPhases(EmptyDict, val, 1)

\* the loop over the items of a parameter list with more than one element
RECURSIVE CoeffTable(_, _, _)
CoeffTable(items, i, table) ==
    IF i > Len(items) THEN table
    ELSE IF ~IsDict(items[i]) THEN Err("ConfigGeneratorError")
    ELSE IF ~HasS(items[i], "u") THEN Err("KeyError")
    ELSE With(_build_units(GetS(items[i], "u")), LAMBDA built :
         LET item == items[i]
             index == IF HasS(item, "i") THEN GetS(item, "i") ELSE IntV(0)
         IN  IF IsErr(built)
             THEN IF built.kind \in {"AttributeError", "TypeError", "ValueError"}
                  THEN Err("ConfigGeneratorError")
                  ELSE built
             ELSE IF ~HasS(item, "v") THEN Err("KeyError")
             ELSE IF ~Hashable(index) THEN Err("TypeError")
             ELSE CoeffTable(items, i + 1,
                             Put(table, index, Tup(<<GetS(item, "v"), built>>))))

\* the `else` branch: a single object with 'v', 'u' keys, taken as val[0]
SingleParam(val) ==
    IF IsDict(val) /\ ~HasKey(val, IntV(0)) THEN Err("KeyError")
    ELSE IF ~IsDict(val) /\ PyLen(val) = 0 THEN Err("IndexError")
    ELSE LET item == IF IsDict(val) THEN Get(val, IntV(0)) ELSE IterSeq(val)[1]
         IN  IF ~IsDict(item) THEN Err("TypeError")
             ELSE IF ~HasS(item, "u") THEN Err("KeyError")
             ELSE Then(_build_units(GetS(item, "u")), LAMBDA built :
                  IF ~HasS(item, "v") THEN Err("KeyError")
                  ELSE Tup(<<GetS(item, "v"), built>>))

\* the new value of params[param_key]
TransformParam(param_key, val) ==
    IF param_key = Str("reaction_order") THEN FlattenByPhase(val)
    ELSE IF ~HasLen(val) THEN Err("TypeError")
    ELSE IF PyLen(val) > 1 THEN CoeffTable(IterSeq(val), 1, EmptyDict)
    ELSE SingleParam(val)

RECURSIVE TransformParams(_, _)
TransformParams(params, i) ==
    IF i > Len(params.kv) THEN params
    ELSE Then(TransformParam(params.kv[i].k, params.kv[i].v), LAMBDA new :
         TransformParams(Put(params, params.kv[i].k, new), i + 1))

\* variant: a record without parameter_data is rejected
_transform_parameter_data_required(comp) ==
    IF ~HasS(comp, "parameter_data") THEN Err("KeyError")
    ELSE IF Falsy(GetS(comp, "parameter_data")) THEN comp
    ELSE IF ~IsDict(GetS(comp, "parameter_data")) THEN Err("TypeError")
    ELSE Then(TransformParams(GetS(comp, "parameter_data"), 1), LAMBDA new :
         PutS(comp, "parameter_data", new))

_transform_parameter_data(comp) ==
    LET params == IF HasS(comp, "parameter_data") THEN GetS(comp, "parameter_data")
                  ELSE None
    IN  IF Falsy(params) THEN comp
        ELSE IF ~IsDict(params) THEN Err("TypeError")
        ELSE Then(TransformParams(params, 1), LAMBDA new :
             PutS(comp, "parameter_data", new))

\* ------------------------------------------------------------------------
\* ConfigGenerator._substitute
\* ------------------------------------------------------------------------
SUBST_UNITS == Str("units")

dicty(d) == d.t = "dict"

\* variant: every value is taken for a string or a list of strings
stringishAny(x) == TRUE

\* stringish(x): the loop over a list tests `x`, the list itself, so that a
\* non-empty list or tuple is reported as not stringish
stringish(x) ==
    IF IsStr(x) THEN TRUE
    ELSE IF IsList(x) \/ IsTuple(x) THEN x.e = <<>>
    ELSE FALSE

\* the substituted list `new_list` for the values `vals`
RECURSIVE SubstList(_, _, _, _)
SubstList(vals, subst, i, new_list) ==
    IF i > Len(vals) THEN Lst(new_list)
    ELSE LET str_value == vals[i]
         IN  IF dicty(subst)
             THEN IF ~Hashable(str_value) THEN Err("TypeError")
                  ELSE IF HasKey(subst, str_value)
                  THEN SubstList(vals, subst, i + 1,
                                 Append(new_list, Get(subst, str_value)))
                  ELSE SubstList(vals, subst, i + 1, Append(new_list, str_value))
             ELSE IF subst = SUBST_UNITS /\ IsStr(str_value)
             THEN Then(_build_units(str_value), LAMBDA built :
                  SubstList(vals, subst, i + 1, Append(new_list, built)))
             ELSE SubstList(vals, subst, i + 1, Append(new_list, str_value))

\* substitute_value(d, subst, key): the mapping d after d[key] was rewritten
substitute_value(d, subst, key) ==
    LET val == Get(d, key)
        is_list == val.t \notin {"str", "int"}
    IN  IF is_list /\ ~HasLen(val) THEN Err("TypeError")
        ELSE Then(SubstList(IF is_list THEN IterSeq(val) ELSE <<val>>, subst, 1, <<>>),
                  LAMBDA new : Put(d, key, IF is_list THEN new ELSE new.e[1]))

\* the wildcard branch: one substitution per matching key, in key order
RECURSIVE SubstMatches(_, _, _, _)
SubstMatches(d, matches, subst, i) ==
    IF i > Len(matches) THEN d
    ELSE IF ~stringish(Get(d, matches[i]))
    THEN SubstMatches(d, matches, subst, i + 1)
    ELSE Then(substitute_value(d, subst, matches[i]), LAMBDA new :
         SubstMatches(new, matches, subst, i + 1))

HasStar(s) == \E i \in 1..Len(s) : CharAt(s, i) = "*"

\* the substitutions in the terminal mapping for the last path segment
SubstTerminal(data_section, sv_key, subst) ==
    IF HasStar(sv_key)
    THEN SubstMatches(data_section,
                      SelectSeq(Keys(data_section),
                                LAMBDA k : FnMatchCase(k.s, sv_key)),
                      subst, 1)
    ELSE IF HasS(data_section, sv_key)
    THEN substitute_value(data_section, subst, Str(sv_key))
    ELSE data_section

\* variant: a segment that is absent, or a value that is not a mapping, is
\* an error
RECURSIVE SubstPathStrict(_, _, _)
SubstPathStrict(data_section, key_list, subst) ==
    IF ~dicty(data_section) THEN Err("TypeError")
    ELSE IF ~HasStar(key_list[1]) /\ ~HasS(data_section, key_list[1]) THEN Err("KeyError")
    ELSE IF Len(key_list) > 1
    THEN Then(SubstPathStrict(GetS(data_section, key_list[1]), Tail(key_list), subst),
              LAMBDA sub : PutS(data_section, key_list[1], sub))
    ELSE SubstTerminal(data_section, key_list[1], subst)

\* walk down the dotted path; the mapping found there is rewritten in place
RECURSIVE SubstPath(_, _, _)
SubstPath(data_section, key_list, subst) ==
    IF ~dicty(data_section) THEN data_section
    ELSE IF Len(key_list) > 1
    THEN IF HasS(data_section, key_list[1])
         THEN Then(SubstPath(GetS(data_section, key_list[1]), Tail(key_list), subst),
                   LAMBDA sub : PutS(data_section, key_list[1], sub))
         ELSE data_section
    ELSE SubstTerminal(data_section, key_list[1], subst)

\* sv: the class's substitute_values as a sequence of [path, subst]
RECURSIVE SubstituteFrom(_, _, _)
SubstituteFrom(data, sv, i) ==
    IF i > Len(sv) THEN data
    ELSE Then(SubstPath(data, Split(sv[i].path), sv[i].subst), LAMBDA new :
         SubstituteFrom(new, sv, i + 1))
_substitute(sv, data) == SubstituteFrom(data, sv, 1)

\* ------------------------------------------------------------------------
\* ConfigGenerator._remove_special and _wrap_section
\* ------------------------------------------------------------------------
StartsWithUnderscore(k) == k.s # "" /\ CharAt(k.s, 1) = "_"

\* variant: nothing is removed
_keep_special(data) == data

_remove_special(data) ==
    Dct(SelectSeq(data.kv, LAMBDA p : ~(StartsWithUnderscore(p.k) \/ p.k = Str("name"))))

\* variant: the record's identity is copied into the named entry
NotCopiedButId(section) ==
    {Str("name"), Str("base_units"), Str("reaction_type"), Str("components"),
     Str("reactant_elements"), Str(section)}

\* keys that are not copied into the named entry
NotCopied(section) ==
    {Str("name"), Str("base_units"), Str("reaction_type"), Str("components"),
     Str("reactant_elements"), Str(section), Str("_id")}

\* `x in container` for the containers data[section] can be
Contains(container, x) ==
    IF IsDict(container) THEN HasKey(container, x)
    ELSE \E i \in DOMAIN IterSeq(container) : IterSeq(container)[i] = x

_wrap_section(section, data) ==
    LET comp_name == GetS(data, "name")
        data1 == IF HasS(data, section) THEN data ELSE PutS(data, section, EmptyDict)
        sect == GetS(data1, section)
        entry == Dct(SelectSeq(data1.kv, LAMBDA p : p.k \notin NotCopied(section)))
        kept == Dct(SelectSeq(data1.kv,
                              LAMBDA p : p.k \in {Str("base_units"), Str(section)}))
    IN  IF ~HasS(data, "name") THEN Err("KeyError")
        ELSE IF ~HasLen(sect) THEN Err("TypeError")
        ELSE IF Contains(sect, comp_name) THEN Err("AssertionError")
        ELSE IF ~IsDict(sect) THEN Err("TypeError")
        ELSE _remove_special(PutS(kept, section, Put(sect, comp_name, entry)))

\* ------------------------------------------------------------------------
\* The three generators
\* ------------------------------------------------------------------------
SV(path, subst) == [path |-> path, subst |-> subst]
Table1(k1, v1) == Dct(<<KV(Str(k1), v1)>>)
Table2(k1, v1, k2, v2) == Dct(<<KV(Str(k1), v1), KV(Str(k2), v2)>>)

IComponent == Obj("IComponent")

ThermoSubstituteValues ==
    << SV("valid_phase_types",
          Dct(<<KV(Str("PT.liquidPhase"), Obj("PhaseType.liquidPhase")),
                KV(Str("PT.solidPhase"), Obj("PhaseType.solidPhase")),
                KV(Str("PT.vaporPhase"), Obj("PhaseType.vaporPhase")),
                KV(Str("PT.aqueousPhase"), Obj("PhaseType.aqueousPhase"))>>)),
       SV("*_comp", Table2("Perrys", Obj("Perrys"), "NIST", Obj("NIST"))),
       SV("phase_equilibrium_form.*", Table1("fugacity", Obj("fugacity"))) >>

ThermoTransform(data) ==
    Then(_transform_parameter_data(data), LAMBDA d1 :
    Then(_substitute(ThermoSubstituteValues, d1), LAMBDA d2 :
    _wrap_section("components", PutS(DelS(d2, "elements"), "type", IComponent))))

ReactionSubstituteValues ==
    << SV("heat_of_reaction", Table1("constant_dh_rxn", Obj("constant_dh_rxn"))),
       SV("*_form", Table2("log_power_law", Obj("log_power_law"),
                           "ConcentrationForm.molarity", Obj("ConcentrationForm.molarity"))),
       SV("*_constant", Table2("van_t_hoff_aqueous", Obj("van_t_hoff_aqueous"),
                               "van_t_hoff", Obj("van_t_hoff"))) >>

\* variant: a reaction of any other type is filed under rate_reactions
ReactionTransformAnyType(data) ==
    Then(_transform_parameter_data(data), LAMBDA d1 :
    Then(_substitute(ReactionSubstituteValues, d1), LAMBDA d3 :
    IF ~HasS(d3, "type") THEN Err("KeyError")
    ELSE IF GetS(d3, "type") = Str("equilibrium")
    THEN _wrap_section("equilibrium_reactions", DelS(d3, "type"))
    ELSE _wrap_section("rate_reactions", DelS(d3, "type"))))

ReactionTransform(data) ==
    Then(_transform_parameter_data(data), LAMBDA d1 :
    Then(IF HasS(d1, "stoichiometry")
         THEN Then(FlattenByPhase(GetS(d1, "stoichiometry")),
                   LAMBDA stoich_table : PutS(d1, "stoichiometry", stoich_table))
         ELSE d1, LAMBDA d2 :
    Then(_substitute(ReactionSubstituteValues, d2), LAMBDA d3 :
    IF ~HasS(d3, "type") THEN Err("KeyError")
    ELSE IF GetS(d3, "type") = Str("equilibrium")
    THEN _wrap_section("equilibrium_reactions", DelS(d3, "type"))
    ELSE Err("RuntimeError"))))

BaseSubstituteValues ==
    << SV("state_definition", Table1("FTPx", Obj("FTPx"))),
       SV("phases.Liq.type", Table1("LiquidPhase", Obj("LiquidPhase"))),
       SV("phases.Liq.equation_of_state", Table1("Ideal", Obj("Ideal"))),
       SV("base_units.*", SUBST_UNITS) >>

BaseTransform(data) ==
    Then(_substitute(BaseSubstituteValues, data), LAMBDA d1 : _remove_special(d1))

\* ConfigGenerator subclasses _transform, by class
Transform(cls, data) ==
    CASE cls = "ThermoConfig" -> ThermoTransform(data)
      [] cls = "ReactionConfig" -> ReactionTransform(data)
      [] cls = "BaseConfig" -> BaseTransform(data)

\* ------------------------------------------------------------------------
\* The inverse transform: DataWrapper._method_to_str,
\* DataWrapper._convert_parameter_data, Component.from_idaes_config
\* ------------------------------------------------------------------------
\* subst_strings: value -> token over all the tables of the generator class
\* (tables whose spec is a mapping), later tables overwriting earlier ones
RECURSIVE InvertTable(_, _, _)
InvertTable(acc, mapping, j) ==
    IF j > Len(mapping.kv) THEN acc
    ELSE InvertTable(Put(acc, mapping.kv[j].v, mapping.kv[j].k), mapping, j + 1)
RECURSIVE SubstStringsFrom(_, _, _)
SubstStringsFrom(acc, sv, i) ==
    IF i > Len(sv) THEN acc
    ELSE SubstStringsFrom(InvertTable(acc, sv[i].subst, 1), sv, i + 1)
SubstStrings(sv) == SubstStringsFrom(EmptyDict, sv, 1)

\* _method_to_str with required=False, default=None: the new tgt
_method_to_str(fld, src, tgt, subst) ==
    IF HasKey(src, fld)
    THEN LET value == Get(src, fld)
         IN  IF ~Hashable(value) THEN Err("TypeError")
             ELSE IF ~HasKey(subst, value) THEN Err("BadConfiguration")
             ELSE Put(tgt, fld, Get(subst, value))
    ELSE tgt

\* str(x) for the values a parameter can carry as its unit
RECURSIVE NatToStr(_)
NatToStr(n) ==
    LET d == CHOOSE c \in Digits : DigitVal(c) = n % 10
    IN  IF n < 10 THEN d ELSE NatToStr(n \div 10) \o d
PyStr(x) ==
    CASE x.t = "unit" -> Str(x.u)
      [] x.t = "str" -> x
      [] x.t = "int" -> Str(IF x.n < 0 THEN "-" \o NatToStr(-x.n) ELSE NatToStr(x.n))
      [] x.t = "none" -> Str("None")
      [] OTHER -> Str("<object>")

\* x[0] and x[1] exist
Pairish(x) ==
    \/ x.t \in {"list", "tuple"} /\ Len(x.e) >= 2
    \/ x.t = "str" /\ Len(x.s) >= 2
    \/ x.t = "dict" /\ HasKey(x, IntV(0)) /\ HasKey(x, IntV(1))
Item(x, n) ==
    IF x.t = "dict" THEN Get(x, IntV(n)) ELSE IterSeq(x)[n + 1]

\* the list built from a mapping with scalar keys
RECURSIVE ParamList(_, _, _)
ParamList(value, j, param_list) ==
    IF j > Len(value.kv) THEN Lst(param_list)
    ELSE LET i == value.kv[j].k
             value2 == value.kv[j].v
             i2 == IF i.t = "str" /\ IsDigits(i.s) THEN IntV(DigitsVal(i.s, 0)) ELSE i
         IN  IF i.t \notin {"int", "str"} THEN Err("BadConfiguration")
             ELSE IF ~Pairish(value2)
             THEN Err(IF HasLen(value2) /\ ~IsDict(value2) THEN "IndexError"
                      ELSE IF IsDict(value2) THEN "KeyError" ELSE "TypeError")
             ELSE ParamList(value, j + 1,
                     Append(param_list,
                            Dct(<<KV(Str("i"), i2), KV(Str("v"), Item(value2, 0)),
                                  KV(Str("u"), PyStr(Item(value2, 1)))>>)))

RECURSIVE ConvertParams(_, _, _)
ConvertParams(pd, j, data) ==
    IF j > Len(pd.kv) THEN data
    ELSE LET param == pd.kv[j].k
             value == pd.kv[j].v
             key0 == value.kv[1].k
         IN  IF IsTuple(value)
             THEN IF Len(value.e) < 2 THEN Err("IndexError")
                  ELSE ConvertParams(pd, j + 1,
                         Put(data, param,
                             Lst(<<Dct(<<KV(Str("v"), value.e[1]),
                                         KV(Str("u"), PyStr(value.e[2]))>>)>>)))
             ELSE IF IsDict(value) /\ Len(value.kv) > 0
             THEN IF IsTuple(key0) THEN ConvertParams(pd, j + 1, data)
                  ELSE Then(ParamList(value, 1, <<>>), LAMBDA param_list :
                       ConvertParams(pd, j + 1, Put(data, param, param_list)))
             ELSE Err("BadConfiguration")

_convert_parameter_data(src, tgt) ==
    IF ~HasS(src, "parameter_data") THEN Err("BadConfiguration")
    ELSE IF ~IsDict(GetS(src, "parameter_data")) THEN Err("AttributeError")
    ELSE Then(ConvertParams(GetS(src, "parameter_data"), 1, EmptyDict), LAMBDA data :
         PutS(tgt, "parameter_data", data))

\* for fld in c: if fld.endswith("_comp"): _method_to_str(fld, c, d, ...)
RECURSIVE CompFields(_, _, _, _)
CompFields(c, d, subst, j) ==
    IF j > Len(c.kv) THEN d
    ELSE IF EndsWith(c.kv[j].k.s, "_comp")
    THEN Then(_method_to_str(c.kv[j].k, c, d, subst), LAMBDA new :
         CompFields(c, new, subst, j + 1))
    ELSE CompFields(c, d, subst, j + 1)

\* for phase in key: _method_to_str(phase, {phase: value}, d[fld], ...)
RECURSIVE PhaseForms(_, _, _, _, _)
PhaseForms(phases, value, tgt, subst, j) ==
    IF j > Len(phases) THEN tgt
    ELSE Then(_method_to_str(phases[j], Dct(<<KV(phases[j], value)>>), tgt, subst),
              LAMBDA new : PhaseForms(phases, value, new, subst, j + 1))

\* the body of the loop over config["components"] for one entry; `kv` is the
\* pair the local variables key, value are bound to when the entry is
\* reached (None: not bound yet).  Returns [d, kv] or an error.
ComponentRecord(name, c, subst, kv) ==
    IF ~HasS(c, "type") THEN Err("BadConfiguration")
    ELSE IF GetS(c, "type") # IComponent THEN Err("BadConfiguration")
    ELSE
    Then(_method_to_str(Str("valid_phase_types"), c, Dct(<<KV(Str("name"), name)>>), subst),
         LAMBDA d1 :
    Then(CompFields(c, d1, subst, 1), LAMBDA d2 :
    IF ~HasS(c, "phase_equilibrium_form")
    THEN Then(_convert_parameter_data(c, d2), LAMBDA d4 :
         [t |-> "ok", d |-> d4, kv |-> kv])
    ELSE LET pef == GetS(c, "phase_equilibrium_form")
             kv2 == IF IsDict(pef) /\ Len(pef.kv) > 0 THEN pef.kv[1] ELSE kv
         IN  IF ~IsDict(pef) THEN Err("AttributeError")
             ELSE IF kv2 = None THEN Err("UnboundLocalError")
             ELSE IF ~HasLen(kv2.k) THEN Err("TypeError")
             ELSE Then(PhaseForms(IterSeq(kv2.k), kv2.v, EmptyDict, subst, 1),
                       LAMBDA forms :
                  Then(_convert_parameter_data(c, PutS(d2, "phase_equilibrium_form", forms)),
                       LAMBDA d4 : [t |-> "ok", d |-> d4, kv |-> kv2]))))

RECURSIVE ComponentRecords(_, _, _, _, _)
ComponentRecords(comps, subst, j, kv, result) ==
    IF j > Len(comps.kv) THEN Lst(result)
    ELSE Then(ComponentRecord(comps.kv[j].k, comps.kv[j].v, subst, kv), LAMBDA r :
         ComponentRecords(comps, subst, j + 1, r.kv, Append(result, r.d)))

\* Component.from_idaes_config(config): the list of the records the new
\* Component wrappers are constructed around, or the error raised
ComponentFromIdaesConfig(config) ==
    IF ~HasS(config, "components") THEN Err("BadConfiguration")
    ELSE ComponentRecords(GetS(config, "components"),
                          SubstStrings(ThermoSubstituteValues), 1, None, <<>>)

\* Reaction._convert_stoichiometry: the two-level mapping built from the
\* keys (phase, species)
RECURSIVE Stoichiometry(_, _, _)
Stoichiometry(src, j, data) ==
    IF j > Len(src.kv) THEN data
    ELSE LET key == src.kv[j].k
         IN  IF ~HasLen(key) THEN Err("TypeError")
             ELSE IF PyLen(key) # 2 THEN Err("ValueError")
             ELSE LET phase == IterSeq(key)[1]
                      species == IterSeq(key)[2]
                      old == IF HasKey(data, phase) THEN Get(data, phase) ELSE EmptyDict
                  IN  Stoichiometry(src, j + 1,
                                    Put(data, phase, Put(old, species, src.kv[j].v)))
\* variant: every key starts a new mapping for its phase
RECURSIVE StoichiometryLast(_, _, _)
StoichiometryLast(src, j, data) ==
    IF j > Len(src.kv) THEN data
    ELSE LET key == src.kv[j].k
         IN  IF ~HasLen(key) THEN Err("TypeError")
             ELSE IF PyLen(key) # 2 THEN Err("ValueError")
             ELSE StoichiometryLast(src, j + 1,
                                    Put(data, IterSeq(key)[1],
                                        Put(EmptyDict, IterSeq(key)[2], src.kv[j].v)))
_convert_stoichiometry_last(src, tgt) ==
    IF ~IsDict(src) THEN Err("AttributeError")
    ELSE Then(StoichiometryLast(src, 1, EmptyDict), LAMBDA data :
         PutS(tgt, "stoichiometry", data))

_convert_stoichiometry(src, tgt) ==
    IF ~IsDict(src) THEN Err("AttributeError")
    ELSE Then(Stoichiometry(src, 1, EmptyDict), LAMBDA data :
         PutS(tgt, "stoichiometry", data))

\* for fld, val in r.items(): strings are kept, mappings are skipped, every
\* other value goes through _method_to_str
RECURSIVE ReactionFields(_, _, _, _)
ReactionFields(r, d, subst, j) ==
    IF j > Len(r.kv) THEN d
    ELSE IF IsStr(r.kv[j].v)
    THEN ReactionFields(r, Put(d, r.kv[j].k, r.kv[j].v), subst, j + 1)
    ELSE IF ~IsDict(r.kv[j].v)
    THEN Then(_method_to_str(r.kv[j].k, r, d, subst), LAMBDA new :
         ReactionFields(r, new, subst, j + 1))
    ELSE ReactionFields(r, d, subst, j + 1)

\* the body of the loop over config["equilibrium_reactions"] for one entry
ReactionRecord(name, r, subst) ==
    IF ~IsDict(r) THEN Err("AttributeError")
    ELSE
    Then(ReactionFields(r, Dct(<<KV(Str("name"), name),
                                 KV(Str("type"), Str("equilibrium"))>>), subst, 1),
         LAMBDA d1 :
    Then(_convert_parameter_data(r, d1), LAMBDA d2 :
    IF HasS(r, "stoichiometry")
    THEN _convert_stoichiometry(GetS(r, "stoichiometry"), d2)
    ELSE d2))

RECURSIVE ReactionRecords(_, _, _, _)
ReactionRecords(reactions, subst, j, result) ==
    IF j > Len(reactions.kv) THEN Lst(result)
    ELSE Then(ReactionRecord(reactions.kv[j].k, reactions.kv[j].v, subst), LAMBDA d :
         ReactionRecords(reactions, subst, j + 1, Append(result, d)))

\* Reaction.from_idaes_config(config): the list of the records the new
\* Reaction wrappers are constructed around, or the error raised
ReactionFromIdaesConfig(config) ==
    IF ~HasS(config, "equilibrium_reactions") THEN Err("BadConfiguration")
    ELSE IF ~IsDict(GetS(config, "equilibrium_reactions")) THEN Err("AttributeError")
    ELSE ReactionRecords(GetS(config, "equilibrium_reactions"),
                         SubstStrings(ReactionSubstituteValues), 1, <<>>)

\* cls.from_idaes_config(config)
from_idaes_config(cls, config) ==
    IF cls = "Component" THEN ComponentFromIdaesConfig(config)
    ELSE ReactionFromIdaesConfig(config)

\* variant: json_data hands out the record's fields as they are
JsonDataWithId(data) == data

\* DataWrapper.json_data: a shallow copy of the record without "_id"
JsonData(data) == DelS(data, "_id")

\* ------------------------------------------------------------------------
\* The wrappers of the model and the records they are constructed around
\* ------------------------------------------------------------------------
\* longest pending queue of a Base the model explores
MaxQueue == 2
\* number of add() calls the model explores
MaxAdds == 4

Components == {"c1", "c2"}
Reactions == {"r1", "r2"}
Bases == {"bA", "bB"}
Wrappers == Components \cup Reactions \cup Bases

\* the record passed to the constructor of each wrapper
Record(w) ==
    CASE w = "c1" ->
           Dct(<<KV(Str("_id"), Str("oid1")),
                 KV(Str("name"), Str("X")),
                 KV(Str("valid_phase_types"), Str("PT.liquidPhase")),
                 KV(Str("elements"), Lst(<<Str("H")>>))>>)
      [] w = "c2" ->
           Dct(<<KV(Str("name"), Str("X")),
                 KV(Str("dens_mol_liq_comp"), Str("Perrys"))>>)
      [] w = "r1" ->
           Dct(<<KV(Str("_id"), Str("oid3")),
                 KV(Str("name"), Str("R")),
                 KV(Str("type"), Str("equilibrium")),
                 KV(Str("heat_of_reaction"), Str("constant_dh_rxn")),
                 KV(Str("base_units"), Dct(<<KV(Str("time"), Str("s"))>>))>>)
      [] w = "r2" ->
           Dct(<<KV(Str("name"), Str("R2")),
                 KV(Str("type"), Str("kinetic"))>>)
      [] w = "bA" ->
           Dct(<<KV(Str("_id"), Str("oid5")),
                 KV(Str("base_units"), Dct(<<KV(Str("time"), Str("s"))>>)),
                 KV(Str("state_definition"), Str("FTPx"))>>)
      [] w = "bB" ->
           Dct(<<KV(Str("_id"), Str("oid6")),
                 KV(Str("base_units"), Dct(<<KV(Str("time"), Str("None"))>>)),
                 KV(Str("equilibrium_reactions"),
                    Dct(<<KV(Str("R0"),
                             Dct(<<KV(Str("heat_of_reaction"),
                                      Str("constant_dh_rxn"))>>))>>))>>)
Records == [w \in Wrappers |-> Record(w)]

\* the ConfigGenerator subclass each wrapper class hands to DataWrapper
ConfigGenClass(w) ==
    IF w \in Components THEN "ThermoConfig"
    ELSE IF w \in Reactions THEN "ReactionConfig"
    ELSE "BaseConfig"

\* merge_keys of the wrapper's class
merge_keys(w) ==
    IF w \in Components THEN <<"components">>
    ELSE IF w \in Reactions THEN <<"equilibrium_reactions", "rate_reactions">>
    ELSE <<>>

\* the top-level sections a merge can reach: they are dict objects of their
\* own in the heap, every other nested value is never updated in place once
\* a fragment exists
SectionKeys == {"components", "equilibrium_reactions", "rate_reactions"}

\* ------------------------------------------------------------------------
\* The heap of dict objects.  Each wrapper allocates at most one fragment,
\* so its objects are named after the wrapper: the record, the fragment
\* (the deep copy made by ConfigGenerator) and the sections of the fragment.
\* ------------------------------------------------------------------------
NoAddr == "None"
RecAddr(w) == "rec." \o w
SecAddr(w, key) == "sec." \o w \o "." \o key

\* variant: no copy is made, the generator works on the record itself
NoCopy(w) == RecAddr(w)

\* copy.deepcopy(data): the object data_copy refers to
DeepCopy(w) == "cfg." \o w

\* the fragment `frag` written to the object `a`, its sections to objects of
\* their own
RECURSIVE StoreFrom(_, _, _, _, _)
StoreFrom(h, w, a, frag, i) ==
    IF i > Len(frag.kv) THEN h
    ELSE LET k == frag.kv[i].k
             v == frag.kv[i].v
         IN  IF k.t = "str" /\ k.s \in SectionKeys /\ IsDict(v)
             THEN LET s == SecAddr(w, k.s)
                      h1 == [x \in DOMAIN h \cup {s} |-> IF x = s THEN v ELSE h[x]]
                  IN  StoreFrom([h1 EXCEPT ![a] = Put(h1[a], k, Ref(s))], w, a, frag, i + 1)
             ELSE StoreFrom([h EXCEPT ![a] = Put(h[a], k, v)], w, a, frag, i + 1)
Store(h, w, a, frag) ==
    StoreFrom([x \in DOMAIN h \cup {a} |-> IF x = a THEN EmptyDict ELSE h[x]],
              w, a, frag, 1)

\* the configuration at address a with its sections read through
Deref(h, a) ==
    Dct([i \in DOMAIN h[a].kv |->
            IF h[a].kv[i].v.t = "ref"
            THEN KV(h[a].kv[i].k, h[h[a].kv[i].v.a])
            ELSE h[a].kv[i]])

\* ------------------------------------------------------------------------
\* State
\* ------------------------------------------------------------------------
VARIABLES
    heap,           \* address -> dict object
    _config,        \* DataWrapper._config: NoAddr or the fragment's address
    _idaes_config,  \* Base._idaes_config: NoAddr or the merged configuration
    _to_merge,      \* Base._to_merge: sequence of wrappers
    _dirty,         \* Base._dirty
    returned,       \* history: what the latest successful read of a Base's
                    \* idaes_config returned (NoAddr: no read yet)
    added,          \* history: the wrappers add()ed to each Base so far
    lastAdded,      \* history: per Base and section, entry name -> the
                    \* wrapper add()ed last among those contributing it
    nAdds,          \* history: number of add() calls so far
    last,           \* the last call: what it was, what it returned, which
                    \* generators it ran and which merges it performed
    rt,             \* the record -> config -> record round trip
    app,            \* one call of a generator or of from_idaes_config on
                    \* its own: the argument, then what it returned
    res             \* a Result: its source iterator and what next() did

vars == <<heap, _config, _idaes_config, _to_merge, _dirty, returned, added,
          lastAdded, nAdds, last, rt, app, res>>

\* the mutable program state the operations work on, plus the trace of the
\* call in progress: the generators run and the _merge calls made
Cur == [heap |-> heap, config |-> _config, idaes_config |-> _idaes_config,
        to_merge |-> _to_merge, dirty |-> _dirty, returned |-> returned,
        gen |-> <<>>, merged |-> <<>>]

Outcome(st, ret) == [st |-> st, ret |-> ret]

\* a call that returns or raises: when it raises, the caller stops there
Ok(r, F(_)) == IF IsErr(r.ret) THEN r ELSE F(r)

\* ConfigGenerator.__init__(data, name): deep copy, transform the copy,
\* keep it as .config.  A generator that raises leaves only garbage behind.
ConfigGenerator(h, w) ==
    With(Transform(ConfigGenClass(w), h[RecAddr(w)]), LAMBDA frag :
    IF IsErr(frag) THEN [heap |-> h, config |-> frag]
    ELSE [heap |-> Store(h, w, DeepCopy(w), frag), config |-> Ref(DeepCopy(w))])

\* variant: the fragment is generated on every read, never taken from _config
WrapperConfigUncached(st, w) ==
    With(ConfigGenerator(st.heap, w), LAMBDA g :
    LET st1 == [st EXCEPT !.gen = Append(@, w)]
    IN  IF IsErr(g.config) THEN Outcome(st1, g.config)
        ELSE Outcome([st1 EXCEPT !.heap = g.heap, !.config[w] = g.config.a], g.config))

\* DataWrapper.idaes_config
WrapperConfig(st, w) ==
    IF st.config[w] # NoAddr THEN Outcome(st, Ref(st.config[w]))
    ELSE With(ConfigGenerator(st.heap, w), LAMBDA g :
         LET st1 == [st EXCEPT !.gen = Append(@, w)]
         IN  IF IsErr(g.config) THEN Outcome(st1, g.config)
             ELSE Outcome([st1 EXCEPT !.heap = g.heap, !.config[w] = g.config.a],
                          g.config))

\* the loop of Base._merge over src.merge_keys
RECURSIVE MergeKeys(_, _, _, _, _)
MergeKeys(h, dst, src_config, keys, i) ==
    IF i > Len(keys) THEN h
    ELSE IF ~HasS(h[src_config], keys[i]) THEN MergeKeys(h, dst, src_config, keys, i + 1)
    ELSE IF HasS(h[dst], keys[i])
    THEN LET d == GetS(h[dst], keys[i]).a
             s == GetS(h[src_config], keys[i]).a
         IN  MergeKeys([h EXCEPT ![d] = Update(h[d], h[s])], dst, src_config, keys, i + 1)
    ELSE MergeKeys([h EXCEPT ![dst] = PutS(h[dst], keys[i], GetS(h[src_config], keys[i]))],
                   dst, src_config, keys, i + 1)

\* the top-level keys whose value differs between two configurations
ChangedKeys(before, after) ==
    {k \in KeySet(before) \cup KeySet(after) :
        \/ ~HasKey(before, k)
        \/ ~HasKey(after, k)
        \/ Get(before, k) # Get(after, k)}

RECURSIVE BaseConfig(_, _)
RECURSIVE MergeLoop(_, _, _)

\* Base._merge(dst, src), dst being the merged configuration of Base b.
\* The trace records, for the call, the keys of dst it changed.
_merge(st, b, src) ==
    Ok(IF src \in Bases THEN BaseConfig(st, src) ELSE WrapperConfig(st, src), LAMBDA r :
    With(MergeKeys(r.st.heap, st.idaes_config[b], r.ret.a, merge_keys(src), 1), LAMBDA h :
    LET dst == st.idaes_config[b]
    IN  Outcome([r.st EXCEPT
                    !.heap = h,
                    !.merged = Append(@, [b |-> b, src |-> src,
                                          changed |-> ChangedKeys(Deref(st.heap, dst),
                                                                  Deref(h, dst))])],
                Ref(dst))))

\* for item in self._to_merge: self._merge(self._idaes_config, item)
MergeLoop(st, b, i) ==
    IF i > Len(st.to_merge[b]) THEN Outcome(st, Ref(st.idaes_config[b]))
    ELSE Ok(_merge(st, b, st.to_merge[b][i]), LAMBDA r : MergeLoop(r.st, b, i + 1))

\* variant: the pending queue is not emptied after the merge
BaseConfigKeepsQueue(st, b) ==
    IF ~st.dirty[b]
    THEN Outcome([st EXCEPT !.returned[b] = st.idaes_config[b]], Ref(st.idaes_config[b]))
    ELSE Ok(IF st.idaes_config[b] = NoAddr THEN WrapperConfig(st, b)
            ELSE Outcome(st, Ref(st.idaes_config[b])), LAMBDA r0 :
         Ok(MergeLoop([r0.st EXCEPT !.idaes_config[b] = r0.ret.a], b, 1), LAMBDA r1 :
         Outcome([r1.st EXCEPT !.dirty[b] = FALSE, !.returned[b] = r1.ret.a], r1.ret)))

\* variant: no early return, the base configuration is rebuilt from the
\* record on every read
BaseConfigRebuilds(st, b) ==
    With(ConfigGenerator(st.heap, b), LAMBDA g :
    LET st0 == [st EXCEPT !.gen = Append(@, b)]
    IN  IF IsErr(g.config) THEN Outcome(st0, g.config)
        ELSE Ok(MergeLoop([st0 EXCEPT !.heap = g.heap, !.config[b] = g.config.a,
                                      !.idaes_config[b] = g.config.a], b, 1), LAMBDA r1 :
             Outcome([r1.st EXCEPT !.dirty[b] = FALSE, !.to_merge[b] = <<>>,
                                   !.returned[b] = r1.ret.a],
                     r1.ret)))

\* variant: a read that raises gives up the pending items
BaseConfigDropsOnError(st, b) ==
    IF ~st.dirty[b]
    THEN Outcome([st EXCEPT !.returned[b] = st.idaes_config[b]], Ref(st.idaes_config[b]))
    ELSE Ok(IF st.idaes_config[b] = NoAddr THEN WrapperConfig(st, b)
            ELSE Outcome(st, Ref(st.idaes_config[b])), LAMBDA r0 :
         With(MergeLoop([r0.st EXCEPT !.idaes_config[b] = r0.ret.a], b, 1), LAMBDA r1 :
         IF IsErr(r1.ret)
         THEN Outcome([r1.st EXCEPT !.to_merge[b] = <<>>], r1.ret)
         ELSE Outcome([r1.st EXCEPT !.dirty[b] = FALSE, !.to_merge[b] = <<>>,
                                    !.returned[b] = r1.ret.a],
                      r1.ret)))

\* Base.idaes_config
BaseConfig(st, b) ==
    IF ~st.dirty[b]
    THEN Outcome([st EXCEPT !.returned[b] = st.idaes_config[b]], Ref(st.idaes_config[b]))
    ELSE Ok(IF st.idaes_config[b] = NoAddr THEN WrapperConfig(st, b)
            ELSE Outcome(st, Ref(st.idaes_config[b])), LAMBDA r0 :
         Ok(MergeLoop([r0.st EXCEPT !.idaes_config[b] = r0.ret.a], b, 1), LAMBDA r1 :
         Outcome([r1.st EXCEPT !.dirty[b] = FALSE, !.to_merge[b] = <<>>,
                               !.returned[b] = r1.ret.a],
                 r1.ret)))

\* variant: add() queues the item and leaves the dirty flag alone
addKeepsFlag(st, b, item) ==
    Outcome([st EXCEPT !.to_merge[b] = Append(@, item)], None)

\* variant: add() reads the item's configuration before queueing it
addValidates(st, b, item) ==
    Ok(IF item \in Bases THEN BaseConfig(st, item) ELSE WrapperConfig(st, item), LAMBDA r :
    Outcome([r.st EXCEPT !.to_merge[b] = Append(@, item), !.dirty[b] = TRUE], None))

\* Base.add(item)
add(st, b, item) ==
    Outcome([st EXCEPT !.to_merge[b] = Append(@, item), !.dirty[b] = TRUE], None)

\* ------------------------------------------------------------------------
\* History of the adds
\* ------------------------------------------------------------------------
\* the fragment each wrapper's record yields
Fragments == [w \in Wrappers |-> Transform(ConfigGenClass(w), Records[w])]
Fragment(w) == Fragments[w]

MergeKeySet(w) == {merge_keys(w)[i] : i \in DOMAIN merge_keys(w)}

\* name -> w for the entries wrapper w contributes to section key
RECURSIVE Named(_, _, _, _)
Named(acc, sect, w, i) ==
    IF i > Len(sect.kv) THEN acc
    ELSE Named(Put(acc, sect.kv[i].k, Str(w)), sect, w, i + 1)
Contribution(w, key, acc) ==
    IF key \in MergeKeySet(w) /\ ~IsErr(Fragment(w)) /\ HasS(Fragment(w), key)
    THEN Named(acc, GetS(Fragment(w), key), w, 1)
    ELSE acc

\* ------------------------------------------------------------------------
\* Operations
\* ------------------------------------------------------------------------
Call(op, w, arg, hit, r) ==
    [op |-> op, w |-> w, arg |-> arg, hit |-> hit, ret |-> r.ret,
     gen |-> r.st.gen, merged |-> r.st.merged]

Commit(st) ==
    /\ heap' = st.heap
    /\ _config' = st.config
    /\ _idaes_config' = st.idaes_config
    /\ _to_merge' = st.to_merge
    /\ _dirty' = st.dirty
    /\ returned' = st.returned

\* the add() calls the model explores.  Only a Base that holds no other
\* Base is added to a Base: a cycle of Bases would make the read recurse
\* without end.
Addable(b, item) ==
    \/ b = "bA" /\ item \in {"c1", "bB"}
    \/ b = "bB" /\ item \in {"c1", "c2", "r1", "r2"}

\* the wrappers whose properties the model also reads outside of a merge
ReadDirectly == {"c1", "r2"}
ReadAsJson == {"c1"}

NoRoundTrip == [pc |-> "off"]
NoApp == [pc |-> "off"]
NoResult == [pc |-> "off"]

\* history: where the order of the add() calls is followed, the item is
\* appended to the sequence of the items added to the Base
Noted(a, b, item) ==
    IF a.pc = "adds" THEN [a EXCEPT !.seq[b] = Append(@, item)] ELSE a

\* a call of Base.add(item)
Add(b, item) ==
    /\ Addable(b, item)
    /\ Len(_to_merge[b]) < MaxQueue
    /\ nAdds < MaxAdds
    /\ \E r \in {add(Cur, b, item)} :
        /\ nAdds' = nAdds + 1
        /\ Commit(r.st)
        /\ added' = [added EXCEPT ![b] = @ \cup {item}]
        /\ lastAdded' = [lastAdded EXCEPT
                            ![b] = [key \in SectionKeys |-> Contribution(item, key, @[key])]]
        /\ last' = Call("add", b, item, FALSE, r)
        /\ app' = Noted(app, b, item)
        /\ UNCHANGED <<rt, res>>

\* a read of Base.idaes_config
ReadBase(b) ==
    \E r \in {BaseConfig(Cur, b)} :
        /\ Commit(r.st)
        /\ last' = Call("idaes_config", b, "", ~_dirty[b], r)
        /\ UNCHANGED <<added, lastAdded, nAdds, rt, app, res>>

\* a read of Component.idaes_config / Reaction.idaes_config
ReadWrapper(w) ==
    \E r \in {WrapperConfig(Cur, w)} :
        /\ Commit(r.st)
        /\ last' = Call("idaes_config", w, "", _config[w] # NoAddr, r)
        /\ UNCHANGED <<added, lastAdded, nAdds, rt, app, res>>

\* a read of DataWrapper.json_data
ReadJson(w) ==
    /\ Commit(Cur)
    /\ last' = Call("json_data", w, "", FALSE, Outcome(Cur, JsonData(heap[RecAddr(w)])))
    /\ UNCHANGED <<added, lastAdded, nAdds, rt, app, res>>

NoCall == [op |-> "init", w |-> "", arg |-> "", hit |-> FALSE, ret |-> None,
           gen |-> <<>>, merged |-> <<>>]

\* the wrappers just constructed
Constructed ==
    /\ heap = [a \in {RecAddr(w) : w \in Wrappers} |->
                  Records[CHOOSE w \in Wrappers : RecAddr(w) = a]]
    /\ _config = [w \in Wrappers |-> NoAddr]
    /\ _idaes_config = [b \in Bases |-> NoAddr]
    /\ _to_merge = [b \in Bases |-> <<>>]
    /\ _dirty = [b \in Bases |-> TRUE]
    /\ returned = [b \in Bases |-> NoAddr]
    /\ added = [b \in Bases |-> {}]
    /\ lastAdded = [b \in Bases |-> [key \in SectionKeys |-> EmptyDict]]
    /\ nAdds = 0
    /\ last = NoCall

Init == Constructed /\ rt = NoRoundTrip /\ app = NoApp /\ res = NoResult

Next ==
    \/ \E b \in Bases, item \in Wrappers : Add(b, item)
    \/ \E b \in Bases : ReadBase(b)
    \/ \E w \in ReadDirectly : ReadWrapper(w)
    \/ \E w \in ReadAsJson : ReadJson(w)

Spec == Init /\ [][Next]_vars

\* ------------------------------------------------------------------------
\* One Base, freshly constructed valid items added to it in some order and
\* its configuration read at any point in between
\* ------------------------------------------------------------------------
OrderBase == "bB"
ValidItems == {w \in Components \cup Reactions : ~IsErr(Fragment(w))}

InitOrder ==
    /\ Constructed
    /\ rt = NoRoundTrip
    /\ res = NoResult
    /\ app = [pc |-> "adds", seq |-> [b \in Bases |-> <<>>]]

NextOrder ==
    \/ \E item \in ValidItems : Add(OrderBase, item)
    \/ ReadBase(OrderBase)

SpecOrder == InitOrder /\ [][NextOrder]_vars

\* ------------------------------------------------------------------------
\* Component round trip: record -> idaes_config -> from_idaes_config
\* ------------------------------------------------------------------------
VU(v, u) == Dct(<<KV(Str("v"), IntV(v)), KV(Str("u"), Str(u))>>)
IVU(i, v, u) == Dct(<<KV(Str("i"), IntV(i)), KV(Str("v"), IntV(v)), KV(Str("u"), Str(u))>>)
Opt(present, kvs) == IF present THEN kvs ELSE <<>>

\* the parameter tables a component record carries: none, a one-element
\* list, an indexed list, or both
ParameterData(pd) ==
    LET mw == KV(Str("mw"), Lst(<<VU(18, "kg/mol")>>))
        coeff == KV(Str("coeff"), Lst(<<IVU(1, 5, "None"), IVU(2, 6, "")>>))
    IN  CASE pd = "none" -> <<>>
          [] pd = "single" -> <<KV(Str("parameter_data"), Dct(<<mw>>))>>
          [] pd = "multi" -> <<KV(Str("parameter_data"), Dct(<<coeff>>))>>
          [] pd = "both" -> <<KV(Str("parameter_data"), Dct(<<mw, coeff>>))>>

\* a component record as stored, with the optional fields chosen
ComponentRecordOf(id, vpt, comp, el, pef, pd) ==
    Dct(Opt(id, <<KV(Str("_id"), Str("oid"))>>)
        \o <<KV(Str("name"), Str("H2O")), KV(Str("valid_phase_types"), Str(vpt))>>
        \o Opt(comp # "", <<KV(Str("dens_mol_liq_comp"), Str(comp))>>)
        \o Opt(el, <<KV(Str("elements"), Lst(<<Str("H"), Str("O")>>))>>)
        \o Opt(pef, <<KV(Str("phase_equilibrium_form"),
                         Dct(<<KV(Str("Vap"), Str("fugacity")),
                               KV(Str("Liq"), Str("fugacity"))>>))>>)
        \o ParameterData(pd))

ComponentRecordSet ==
    {ComponentRecordOf(id, vpt, comp, el, pef, pd) :
        id \in BOOLEAN, vpt \in {"PT.liquidPhase", "PT.vaporPhase"},
        comp \in {"", "Perrys", "NIST"}, el \in BOOLEAN, pef \in BOOLEAN,
        pd \in {"none", "single", "multi", "both"}}

\* json_data of every Component of a from_idaes_config result
JsonOfAll(r) ==
    IF IsErr(r) THEN r ELSE Lst([i \in DOMAIN r.e |-> JsonData(r.e[i])])

\* Component(R).idaes_config
ComponentIdaesConfig ==
    /\ rt.pc = "record"
    /\ rt' = [rt EXCEPT !.pc = "config", !.config = Transform("ThermoConfig", rt.R)]
    /\ UNCHANGED <<heap, _config, _idaes_config, _to_merge, _dirty, returned, added,
                   lastAdded, nAdds, last, app, res>>

\* Component.from_idaes_config(config), then json_data of the result
FromIdaesConfig ==
    /\ rt.pc = "config"
    /\ rt' = [rt EXCEPT !.pc = "done",
                        !.result = IF IsErr(rt.config) THEN rt.config
                                   ELSE JsonOfAll(ComponentFromIdaesConfig(rt.config))]
    /\ UNCHANGED <<heap, _config, _idaes_config, _to_merge, _dirty, returned, added,
                   lastAdded, nAdds, last, app, res>>

InitRT ==
    /\ Constructed
    /\ rt \in {[pc |-> "record", R |-> R, config |-> None, result |-> None] :
                  R \in ComponentRecordSet}
    /\ app = NoApp
    /\ res = NoResult

NextRT == ComponentIdaesConfig \/ FromIdaesConfig

SpecRT == InitRT /\ [][NextRT]_vars

\* ------------------------------------------------------------------------
\* from_idaes_config on configurations of the framework's shape
\* ------------------------------------------------------------------------
Field(k, v) == <<KV(Str(k), v)>>
Fugacity == Obj("fugacity")

\* a (value, units) pair of a configuration
Pair(v, u) == Tup(<<IntV(v), UnitObj(u)>>)

\* the parameter tables of a configuration entry: absent, empty, a
\* (value, units) pair, an indexed table of pairs, a reaction order table
\* next to a pair, a table keyed by tuples under another name, an empty
\* table, a bare number, a table with str keys, a table with a None key
ConfigParameterData(pd) ==
    CASE pd = "absent" -> <<>>
      [] pd = "order" ->
           Field("parameter_data",
                 Dct(Field("reaction_order",
                           Dct(<<KV(Tup(<<Str("Liq"), Str("H")>>), IntV(1))>>))
                     \o Field("k_eq_ref", Pair(10, "dimensionless"))))
      [] pd = "tuple-keyed" ->
           Field("parameter_data",
                 Dct(Field("mw", Pair(18, "kg/mol"))
                     \o Field("diffusivity",
                              Dct(<<KV(Tup(<<Str("Liq"), Str("H")>>), Pair(9, "m"))>>))))
      [] pd = "empty-table" ->
           Field("parameter_data", Dct(Field("coeff", EmptyDict)))
      [] pd = "number" ->
           Field("parameter_data", Dct(Field("mw", IntV(18))))
      [] pd = "str-keys" ->
           Field("parameter_data",
                 Dct(Field("coeff",
                           Dct(<<KV(Str("2"), Pair(5, "m")),
                                 KV(Str("A"), Pair(6, "s")),
                                 KV(IntV(1), Pair(7, "K"))>>))))
      [] pd = "none-key" ->
           Field("parameter_data",
                 Dct(Field("coeff", Dct(<<KV(None, Pair(5, "m"))>>))))
      [] pd = "empty" -> Field("parameter_data", EmptyDict)
      [] pd = "pair" ->
           Field("parameter_data",
                 Dct(Field("mw", Tup(<<IntV(18), UnitObj("kg/mol")>>))))
      [] pd = "table" ->
           Field("parameter_data",
                 Dct(Field("coeff",
                           Dct(<<KV(IntV(1), Tup(<<IntV(5), UnitObj("m")>>)),
                                 KV(IntV(2), Tup(<<IntV(6), UnitObj("s")>>))>>))))

\* a configuration as Component.from_idaes_config is handed it: with or
\* without the section, the entry's type marker absent, right or wrong, the
\* phase types one object, a list of objects or an object no table knows
ComponentConfigOf(section, type, vpt, comp, pef, pd) ==
    LET entry ==
          Dct(Opt(type = "IComponent", Field("type", IComponent))
              \o Opt(type = "other", Field("type", Obj("Phase")))
              \o Opt(vpt = "one", Field("valid_phase_types", Obj("PhaseType.liquidPhase")))
              \o Opt(vpt = "list",
                     Field("valid_phase_types",
                           Lst(<<Obj("PhaseType.liquidPhase"),
                                 Obj("PhaseType.vaporPhase")>>)))
              \o Opt(vpt = "unknown", Field("valid_phase_types", Obj("PhaseType.plasma")))
              \o Opt(comp, Field("dens_mol_liq_comp", Obj("Perrys")))
              \o Opt(pef, Field("phase_equilibrium_form",
                                Dct(<<KV(Tup(<<Str("Vap"), Str("Liq")>>), Fugacity)>>)))
              \o ConfigParameterData(pd))
    IN  Dct(Opt(section, Field("components", Dct(Field("H2O", entry))))
            \o Field("base_units", Dct(Field("time", UnitObj("s")))))

\* a configuration as Reaction.from_idaes_config is handed it
ReactionConfigOf(section, heat, form, stoich, pd) ==
    LET entry ==
          Dct(Opt(heat = "one", Field("heat_of_reaction", Obj("constant_dh_rxn")))
              \o Opt(heat = "list",
                     Field("heat_of_reaction", Lst(<<Obj("constant_dh_rxn")>>)))
              \o Opt(heat = "unknown", Field("heat_of_reaction", Obj("variable_dh_rxn")))
              \o Opt(form, Field("equilibrium_form", Obj("log_power_law")))
              \o Opt(stoich,
                     Field("stoichiometry",
                           Dct(<<KV(Tup(<<Str("Liq"), Str("H2O")>>), IntV(-1)),
                                 KV(Tup(<<Str("Liq"), Str("H")>>), IntV(1)),
                                 KV(Tup(<<Str("Vap"), Str("H")>>), IntV(1))>>)))
              \o ConfigParameterData(pd))
    IN  Dct(Opt(section, Field("equilibrium_reactions", Dct(Field("R1", entry)))))

ParameterShapes ==
    {"absent", "empty", "pair", "table", "order", "tuple-keyed", "empty-table",
     "number", "str-keys", "none-key"}

ConfigSet ==
    {[cls |-> "Component",
      config |-> ComponentConfigOf(section, type, vpt, comp, pef, pd)] :
        section \in BOOLEAN, type \in {"absent", "IComponent", "other"},
        vpt \in {"absent", "one", "list", "unknown"}, comp \in BOOLEAN,
        pef \in BOOLEAN, pd \in ParameterShapes}
    \cup
    {[cls |-> "Reaction", config |-> ReactionConfigOf(section, heat, form, stoich, pd)] :
        section \in BOOLEAN, heat \in {"absent", "one", "list", "unknown"},
        form \in BOOLEAN, stoich \in BOOLEAN,
        pd \in ParameterShapes}

\* cls.from_idaes_config(config), then json_data of the result
ApplyFromIdaesConfig ==
    /\ app.pc = "config"
    /\ app' = [app EXCEPT !.pc = "done",
                          !.result = JsonOfAll(from_idaes_config(app.cls, app.config))]
    /\ UNCHANGED <<heap, _config, _idaes_config, _to_merge, _dirty, returned, added,
                   lastAdded, nAdds, last, rt, res>>

InitInv ==
    /\ Constructed
    /\ rt = NoRoundTrip
    /\ res = NoResult
    /\ app \in {[pc |-> "config", cls |-> c.cls, config |-> c.config, result |-> None] :
                   c \in ConfigSet}

NextInv == ApplyFromIdaesConfig

SpecInv == InitInv /\ [][NextInv]_vars

\* ------------------------------------------------------------------------
\* idaes_config of a wrapper around records with parameter tables and units
\* ------------------------------------------------------------------------
\* longest parameter list the model explores
MaxElems == 2

\* an element {i?, v?, u?} of a parameter list; "" stands for an absent key
Element(i, v, u) ==
    Dct(Opt(i # 0, Field("i", IntV(i)))
        \o Opt(v, Field("v", IntV(10 + i)))
        \o Opt(u # "", Field("u", Str(u))))
\* the elements: mappings with and without their keys, with a unit of the
\* vocabulary, an unknown unit and a malformed expression, and a number
\* where a mapping is due
Elements ==
    {Element(i, v, u) : i \in 0..2, v \in BOOLEAN, u \in {"", "m", "s", "furlong", "m/"}}
        \cup {IntV(7)}
\* a parameter entry: a list of elements or one element given bare
ParamEntries ==
    {Lst(l) : l \in UNION {[1..n -> Elements] : n \in 1..MaxElems}}
        \cup {e \in Elements : IsDict(e)}

ReactionOrders ==
    {Dct(Field("Liq", Dct(<<KV(Str("H"), IntV(a)), KV(Str("OH"), IntV(b))>>))
         \o Opt(vap, Field("Vap", Dct(Field("H", IntV(a))))))
        : a \in 1..2, b \in 1..2, vap \in BOOLEAN}

UnitStrings == {"s", "kg/m", "None", "furlong", "m/"}

\* the records the wrappers are constructed around
GenRecordSet ==
    {[cls |-> "Component",
      data |-> Dct(Field("name", Str("H2O"))
                   \o Field("parameter_data", Dct(Field("coeff", e))))] :
        e \in ParamEntries}
    \cup
    {[cls |-> "Reaction",
      data |-> Dct(Field("name", Str("R1")) \o Field("type", Str("equilibrium"))
                   \o Field("parameter_data", Dct(Field("reaction_order", ro))))] :
        ro \in ReactionOrders}
    \cup
    {[cls |-> "Base",
      data |-> Dct(Field("base_units",
                         Dct(Field("time", Str(u1)) \o Field("length", Str(u2)))))] :
        u1 \in UnitStrings, u2 \in UnitStrings}

\* the ConfigGenerator subclass a wrapper class hands to DataWrapper
GeneratorOf(cls) ==
    CASE cls = "Component" -> "ThermoConfig"
      [] cls = "Reaction" -> "ReactionConfig"
      [] cls = "Base" -> "BaseConfig"

\* the first read of DataWrapper.idaes_config: _config is set only when the
\* generator returned
IdaesConfig ==
    /\ app.pc = "new"
    /\ \E r \in {Transform(GeneratorOf(app.cls), app.data)} :
          app' = [app EXCEPT !.pc = "read", !.ret = r,
                             !._config = IF IsErr(r) THEN None ELSE r]
    /\ UNCHANGED <<heap, _config, _idaes_config, _to_merge, _dirty, returned, added,
                   lastAdded, nAdds, last, rt, res>>

InitGen ==
    /\ Constructed
    /\ rt = NoRoundTrip
    /\ res = NoResult
    /\ app \in {[pc |-> "new", cls |-> R.cls, data |-> R.data, _config |-> None,
                  ret |-> None] : R \in GenRecordSet}

NextGen == IdaesConfig

SpecGen == InitGen /\ [][NextGen]_vars

\* ------------------------------------------------------------------------
\* Stoichiometry round trip: Reaction(R).idaes_config, then
\* Reaction.from_idaes_config
\* ------------------------------------------------------------------------
StoichPhases == {"Liq", "Vap"}
StoichSpecies == {"H2O", "H"}
StoichNumbers == {-1, 2}

\* the mappings species -> number, in every insertion order, the empty one
\* included
SpeciesTables ==
    {Dct(<<>>)}
    \cup {Dct(<<KV(Str(sp), IntV(n))>>) : sp \in StoichSpecies, n \in StoichNumbers}
    \cup {Dct(<<KV(Str(o[1]), IntV(n1)), KV(Str(o[2]), IntV(n2))>>) :
             o \in {<<"H2O", "H">>, <<"H", "H2O">>},
             n1 \in StoichNumbers, n2 \in StoichNumbers}

\* the mappings phase -> species -> number
StoichTables ==
    {Dct(<<>>)}
    \cup {Dct(<<KV(Str(ph), t)>>) : ph \in StoichPhases, t \in SpeciesTables}
    \cup {Dct(<<KV(Str(o[1]), t1), KV(Str(o[2]), t2)>>) :
             o \in {<<"Liq", "Vap">>, <<"Vap", "Liq">>},
             t1 \in SpeciesTables, t2 \in SpeciesTables}

StoichRecord(stoich) ==
    Dct(Field("name", Str("R1")) \o Field("type", Str("equilibrium"))
        \o Field("stoichiometry", stoich)
        \o Field("parameter_data", Dct(<<>>)))

\* Reaction(R).idaes_config
ReactionIdaesConfig ==
    /\ rt.pc = "reaction"
    /\ rt' = [rt EXCEPT !.pc = "flattened",
                        !.config = Transform("ReactionConfig", rt.R)]
    /\ UNCHANGED <<heap, _config, _idaes_config, _to_merge, _dirty, returned, added,
                   lastAdded, nAdds, last, app, res>>

\* Reaction.from_idaes_config(config), then json_data of the result
ReactionFromConfig ==
    /\ rt.pc = "flattened"
    /\ rt' = [rt EXCEPT !.pc = "rebuilt",
                        !.result = IF IsErr(rt.config) THEN rt.config
                                   ELSE JsonOfAll(ReactionFromIdaesConfig(rt.config))]
    /\ UNCHANGED <<heap, _config, _idaes_config, _to_merge, _dirty, returned, added,
                   lastAdded, nAdds, last, app, res>>

InitStoich ==
    /\ Constructed
    /\ rt \in {[pc |-> "reaction", R |-> StoichRecord(stoich), config |-> None,
                 result |-> None] : stoich \in StoichTables}
    /\ app = NoApp
    /\ res = NoResult

NextStoich == ReactionIdaesConfig \/ ReactionFromConfig

SpecStoich == InitStoich /\ [][NextStoich]_vars

\* ------------------------------------------------------------------------
\* The substitution step: cls._substitute(data), once and again
\* ------------------------------------------------------------------------
\* the values of a field a *_comp pattern matches
MethodValues ==
    {Str("Perrys"), Str("Other"), IntV(3), Lst(<<>>), Lst(<<Str("Perrys")>>),
     Lst(<<Str("Perrys"), Str("Other")>>), Lst(<<Str("Other"), Str("NIST")>>)}

\* the values of the field valid_phase_types
PhaseTypeValues ==
    {Str("PT.liquidPhase"), Str("PT.plasma"), Lst(<<>>),
     Lst(<<Str("PT.vaporPhase"), Str("PT.liquidPhase")>>),
     Lst(<<Str("PT.plasma"), Str("PT.liquidPhase")>>),
     Lst(<<Str("PT.plasma")>>)}

\* the values of the field phases of a Base record
PhasesValues ==
    {Str("Liq"), Lst(<<Str("Liq")>>), Dct(<<>>),
     Dct(Field("Vap", Dct(Field("type", Str("LiquidPhase"))))),
     Dct(Field("Liq", Str("LiquidPhase"))),
     Dct(Field("Liq", Dct(<<>>))),
     Dct(Field("Liq", Dct(Field("Type", Str("LiquidPhase"))))),
     Dct(Field("Liq", Dct(Field("type", Str("LiquidPhase"))))),
     Dct(Field("Liq", Dct(Field("type", Str("LiquidPhase"))
                          \o Field("equation_of_state", Str("Cubic")))))}

\* the values of the field base_units of a Base record
BaseUnitsValues ==
    {Str("s"), Dct(<<>>),
     Dct(Field("time", Str("s"))),
     Dct(Field("time", Str("s")) \o Field("length", Str("m"))),
     Dct(Field("time", Str("s")) \o Field("mass", Str("kg/m")) \o Field("amount", IntV(1))),
     Dct(Field("time", Lst(<<Str("s")>>))),
     Dct(Field("time", Str("furlong")))}

SubstRecordSet ==
    {[cls |-> "Component",
      data |-> Dct(Field("name", Str("H2O"))
                   \o Opt(vpt # None, Field("valid_phase_types", vpt))
                   \o Opt(comp # None, Field("dens_mol_liq_comp", comp))
                   \o Opt(other # None, Field("dens_mol_liq_COMP", other)))] :
        vpt \in PhaseTypeValues \cup {None}, comp \in MethodValues \cup {None},
        other \in {None, Str("Perrys"), Lst(<<Str("NIST")>>)}}
    \cup
    {[cls |-> "Base",
      data |-> Dct(Opt(sd # None, Field("state_definition", sd))
                   \o Opt(ph # None, Field("phases", ph))
                   \o Opt(bu # None, Field("base_units", bu)))] :
        sd \in {None, Str("FTPx"), Str("FcTP")},
        ph \in PhasesValues \cup {None}, bu \in BaseUnitsValues \cup {None}}

\* cls.substitute_values of the generator of a wrapper class
SubstituteValuesOf(cls) ==
    CASE cls = "Component" -> ThermoSubstituteValues
      [] cls = "Reaction" -> ReactionSubstituteValues
      [] cls = "Base" -> BaseSubstituteValues

\* cls._substitute(data) on the record
SubstituteOnce ==
    /\ app.pc = "data"
    /\ app' = [app EXCEPT !.pc = "once",
                          !.once = _substitute(SubstituteValuesOf(app.cls), app.data)]
    /\ UNCHANGED <<heap, _config, _idaes_config, _to_merge, _dirty, returned, added,
                   lastAdded, nAdds, last, rt, res>>

\* cls._substitute(data) on the mapping the first call rewrote
SubstituteAgain ==
    /\ app.pc = "once"
    /\ ~IsErr(app.once)
    /\ app' = [app EXCEPT !.pc = "twice",
                          !.twice = _substitute(SubstituteValuesOf(app.cls), app.once)]
    /\ UNCHANGED <<heap, _config, _idaes_config, _to_merge, _dirty, returned, added,
                   lastAdded, nAdds, last, rt, res>>

InitSubst ==
    /\ Constructed
    /\ rt = NoRoundTrip
    /\ res = NoResult
    /\ app \in {[pc |-> "data", cls |-> R.cls, data |-> R.data, once |-> None,
                  twice |-> None] : R \in SubstRecordSet}

NextSubst == SubstituteOnce \/ SubstituteAgain

SpecSubst == InitSubst /\ [][NextSubst]_vars

\* ------------------------------------------------------------------------
\* Section wrapping: cls._wrap_section(section, data), and the fragment of
\* the same record
\* ------------------------------------------------------------------------
\* the section a generator wraps its records under
SectionOf(cls) == IF cls = "Component" THEN "components" ELSE "equilibrium_reactions"

\* what a record holds under the section's key before wrapping
SectionValues ==
    {Dct(<<>>), Dct(Field("Na", Dct(Field("type", IComponent)))),
     Dct(Field("X", Dct(<<>>))), Lst(<<Str("Na")>>)}

WrapRecordSet ==
    {[cls |-> cls,
      data |-> Dct(Opt(id, Field("_id", Str("oid")))
                   \o Field("name", Str("X"))
                   \o Opt(cls = "Reaction", Field("type", Str("equilibrium")))
                   \o Opt(bu, Field("base_units", Dct(Field("time", Str("s")))))
                   \o Opt(sect # None, Field(SectionOf(cls), sect))
                   \o Opt(special, Field("reaction_type", Str("acid"))
                                   \o Field("reactant_elements", Lst(<<Str("H")>>)))
                   \o Opt(cls = "Reaction" /\ special,
                          Field("components", Lst(<<Str("H2O")>>)))
                   \o Opt(plain, Field("_note", Str("n"))
                                 \o Field("elements", Lst(<<Str("H")>>))
                                 \o Field("dens_mol_liq_comp", Str("Perrys"))))] :
        cls \in {"Component", "Reaction"}, id \in BOOLEAN, bu \in BOOLEAN,
        sect \in SectionValues \cup {None}, special \in BOOLEAN, plain \in BOOLEAN}

\* cls._wrap_section(section, data) on the record
WrapSection ==
    /\ app.pc = "data"
    /\ app' = [app EXCEPT !.pc = "wrapped",
                          !.wrapped = _wrap_section(SectionOf(app.cls), app.data)]
    /\ UNCHANGED <<heap, _config, _idaes_config, _to_merge, _dirty, returned, added,
                   lastAdded, nAdds, last, rt, res>>

\* the fragment the class's generator makes of the same record
GenerateFragment ==
    /\ app.pc = "wrapped"
    /\ app' = [app EXCEPT !.pc = "fragment",
                          !.config = Transform(GeneratorOf(app.cls), app.data)]
    /\ UNCHANGED <<heap, _config, _idaes_config, _to_merge, _dirty, returned, added,
                   lastAdded, nAdds, last, rt, res>>

InitWrap ==
    /\ Constructed
    /\ rt = NoRoundTrip
    /\ res = NoResult
    /\ app \in {[pc |-> "data", cls |-> R.cls, data |-> R.data, wrapped |-> None,
                  config |-> None] : R \in WrapRecordSet}

NextWrap == WrapSection \/ GenerateFragment

SpecWrap == InitWrap /\ [][NextWrap]_vars

\* ------------------------------------------------------------------------
\* Result: an iterator of wrappers over an iterator of records
\* ------------------------------------------------------------------------
\* longest source the model explores
MaxSource == 3

WrapperClasses == {"Component", "Reaction", "Base"}
WrappersOf(cls) ==
    CASE cls = "Component" -> Components
      [] cls = "Reaction" -> Reactions
      [] cls = "Base" -> Bases
\* the records a query for wrappers of a class returns
RecordsOf(cls) == {Records[w] : w \in WrappersOf(cls)}
Sources(cls) == UNION {[1..n -> RecordsOf(cls)] : n \in 0..MaxSource}

\* item_class(datum): Component and Reaction require 'name'
NewWrapper(cls, datum) ==
    IF cls \in {"Component", "Reaction"} /\ ~HasS(datum, "name") THEN Err("KeyError")
    ELSE [t |-> "wrapper", cls |-> cls, _data |-> datum]

\* next(self._it) for an iterator over the sequence src of which `pulled`
\* records were taken
NextOf(src, pulled) ==
    IF pulled < Len(src) THEN src[pulled + 1] ELSE Err("StopIteration")

\* variant: the whole source is drained by the first call and the wrappers
\* are handed out from a buffer
__next__Eager(r) ==
    IF r.calls < Len(r.src)
    THEN [r EXCEPT !.calls = @ + 1, !.pulled = Len(r.src),
                   !.ret = NewWrapper(r.cls, r.src[r.calls + 1]),
                   !.out = Append(@, NewWrapper(r.cls, r.src[r.calls + 1]))]
    ELSE [r EXCEPT !.calls = @ + 1, !.ret = Err("StopIteration")]

\* Result.__next__: the Result after the call, with what the call returned
\* or raised in .ret
__next__(r) ==
    With(NextOf(r.src, r.pulled), LAMBDA datum :
    IF IsErr(datum) THEN [r EXCEPT !.calls = @ + 1, !.ret = datum]
    ELSE With(NewWrapper(r.cls, datum), LAMBDA obj :
         IF IsErr(obj)
         THEN [r EXCEPT !.calls = @ + 1, !.pulled = @ + 1, !.ret = obj]
         ELSE [r EXCEPT !.calls = @ + 1, !.pulled = @ + 1, !.ret = obj,
                        !.out = Append(@, obj)]))

\* a call of next(result); calls after the end are explored once more than
\* the source is long
ResultNext ==
    /\ res.pc = "iter"
    /\ res.calls <= Len(res.src) + 1
    /\ res' = __next__(res)
    /\ UNCHANGED <<heap, _config, _idaes_config, _to_merge, _dirty, returned, added,
                   lastAdded, nAdds, last, rt, app>>

\* Result(iterator, item_class)
InitResult ==
    /\ Constructed
    /\ rt = NoRoundTrip
    /\ app = NoApp
    /\ res \in {[pc |-> "iter", cls |-> cls, src |-> src, pulled |-> 0, calls |-> 0,
                  ret |-> None, out |-> <<>>] :
                    cls \in WrapperClasses, src \in UNION {Sources(c) : c \in WrapperClasses}}
    /\ res.src \in Sources(res.cls)

NextResult == ResultNext

SpecResult == InitResult /\ [][NextResult]_vars

\* ------------------------------------------------------------------------
\* Properties of Base, Component and Reaction
\* ------------------------------------------------------------------------
MergedConfig(b) == Deref(heap, _idaes_config[b])
SuccessfulRead(b) == last.op = "idaes_config" /\ last.w = b /\ ~IsErr(last.ret)
Count(seq, x) == Cardinality({i \in DOMAIN seq : seq[i] = x})
\* the wrappers merged into Base b by the calls of a trace, in order
RECURSIVE MergedInto(_, _)
MergedInto(tr, b) ==
    IF tr = <<>> THEN <<>>
    ELSE IF Head(tr).b = b THEN <<Head(tr).src>> \o MergedInto(Tail(tr), b)
    ELSE MergedInto(Tail(tr), b)
\* the dict objects a configuration is made of
Objects(h, a) ==
    {a} \cup {h[a].kv[i].v.a : i \in {j \in DOMAIN h[a].kv : h[a].kv[j].v.t = "ref"}}

\* the items added to Base b that contribute entry `name` to section `key`
Contributors(b, key, name) ==
    {w \in added[b] : /\ key \in MergeKeySet(w)
                      /\ ~IsErr(Fragment(w))
                      /\ HasS(Fragment(w), key)
                      /\ HasKey(GetS(Fragment(w), key), name)}

\* C1: after a successful read of a Base's idaes_config, every entry name X
\* of a merge-key section that several added items contribute holds exactly the
\* whole entry of the item added last among them (last-write-wins, whole
\* entry), also for an item added twice or merged into a Base before.
C1_LastWriteWins ==
    \A b \in Bases :
        SuccessfulRead(b) =>
            \A key \in SectionKeys :
                \A name \in KeySet(lastAdded[b][key]) :
                    LET w == Get(lastAdded[b][key], name).s
                        cfg == MergedConfig(b)
                    IN  Cardinality(Contributors(b, key, name)) > 1 =>
                        /\ HasS(cfg, key)
                        /\ HasKey(GetS(cfg, key), name)
                        /\ PyEq(Get(GetS(cfg, key), name),
                                Get(GetS(Fragment(w), key), name))

\* C2: once a Component or Reaction has computed its fragment, no step
\* (no add(), no read on any Base) changes the content of that fragment.
C2_FragmentNeverChanges ==
    [][\A w \in Components \cup Reactions :
          _config[w] # NoAddr =>
              /\ _config'[w] = _config[w]
              /\ Deref(heap', _config[w]) = Deref(heap, _config[w])]_vars

\* C3: every entry of a merge-key section of a Base's merged configuration
\* comes from the Base's own record or from an item that was add()ed to
\* that Base; an item added only to another Base, one that was not itself
\* added to this Base, never shows up.
C3_BasesShareNothing ==
    \A b \in Bases :
        (_idaes_config[b] # NoAddr /\ added[b] \cap Bases = {}) =>
            \A key \in SectionKeys :
                HasS(MergedConfig(b), key) =>
                    \A name \in KeySet(GetS(MergedConfig(b), key)) :
                        \E w \in {b} \cup added[b] :
                            /\ w = b \/ key \in MergeKeySet(w)
                            /\ ~IsErr(Fragment(w))
                            /\ HasS(Fragment(w), key)
                            /\ HasKey(GetS(Fragment(w), key), name)
                            /\ PyEq(Get(GetS(Fragment(w), key), name),
                                    Get(GetS(MergedConfig(b), key), name))

\* C4: after any sequence of idaes_config reads, json_data reads, add()
\* calls and merges (successful or failing) every record still has exactly
\* the keys and values it was constructed with, and no generated
\* configuration is, or refers to, a record object.
C4_RecordNeverMutated ==
    \A w \in Wrappers :
        /\ heap[RecAddr(w)] = Records[w]
        /\ _config[w] # NoAddr =>
               Objects(heap, _config[w]) \cap {RecAddr(x) : x \in Wrappers} = {}
\* a Base read failed on an item after another item was merged, and a
\* Component has its fragment
C4_Witness ==
    /\ last.op = "idaes_config" /\ last.w \in Bases /\ IsErr(last.ret)
    /\ last.merged # <<>>
    /\ _config["c1"] # NoAddr

\* C5: no wrapper has a fragment after construction; the step in which a
\* wrapper gets its fragment runs its generator exactly once; no later step
\* runs the generator again or replaces the cached object, and a later read
\* returns that very object.
C5_LazyMemoized ==
    [][\A w \in Wrappers :
          /\ last.op = "init" => _config[w] = NoAddr
          /\ _config[w] = NoAddr /\ _config'[w] # NoAddr => Count(last'.gen, w) = 1
          /\ _config[w] # NoAddr => Count(last'.gen, w) = 0 /\ _config'[w] = _config[w]
          /\ (/\ last'.op = "idaes_config" /\ last'.w = w /\ w \notin Bases
              /\ _config[w] # NoAddr) => last'.ret = Ref(_config[w])
          /\ last'.op \in {"add", "json_data"} => last'.gen = <<>>]_vars
\* a Component that already had its fragment was read again
C5_Witness ==
    last.op = "idaes_config" /\ last.w = "c1" /\ last.hit /\ last.ret = Ref(_config["c1"])

\* C6: in every step that does not raise, a Base that merges anything
\* merges exactly its pending queue, in queue order, and ends with an empty
\* queue; a read of a dirty Base does so; the queue changes in no other way
\* than by add() appending one item.
C6_MergedExactlyOnce ==
    [][~IsErr(last'.ret) =>
          \A b \in Bases :
              LET m == MergedInto(last'.merged, b)
              IN  /\ (last'.op = "idaes_config" /\ last'.w = b /\ _dirty[b]) =>
                         m = _to_merge[b] /\ _to_merge'[b] = <<>>
                  /\ m # <<>> => m = _to_merge[b] /\ _to_merge'[b] = <<>>
                  /\ _to_merge'[b] # _to_merge[b] =>
                         \/ /\ last'.op = "add" /\ last'.w = b /\ m = <<>>
                            /\ _to_merge'[b] = Append(_to_merge[b], last'.arg)
                         \/ _to_merge'[b] = <<>> /\ m = _to_merge[b]]_vars
\* a read merged two pending items
C6_Witness ==
    /\ last.op = "idaes_config" /\ last.w \in Bases /\ ~IsErr(last.ret)
    /\ Len(MergedInto(last.merged, last.w)) = 2
    /\ _to_merge[last.w] = <<>>

\* C7: a read of idaes_config of a Base that is not dirty changes neither
\* the dirty flag, the queue, the merged configuration nor any wrapper's
\* cache, runs no generator and no merge, and returns the object the
\* previous read returned.
C7_CleanReadIsPure ==
    [][\A b \in Bases :
          (last'.op = "idaes_config" /\ last'.w = b /\ ~_dirty[b]) =>
              /\ heap' = heap
              /\ _config' = _config
              /\ _idaes_config' = _idaes_config
              /\ _to_merge' = _to_merge
              /\ _dirty' = _dirty
              /\ last'.gen = <<>> /\ last'.merged = <<>>
              /\ last'.ret = Ref(returned[b])]_vars
\* a clean Base that items were merged into was read
C7_Witness ==
    /\ last.op = "idaes_config" /\ last.w \in Bases /\ last.hit
    /\ added[last.w] # {}
    /\ HasS(MergedConfig(last.w), "components")

\* C8: add(item) appends the item to the queue of its Base and sets dirty,
\* returns normally whatever the item, computes no fragment and leaves the
\* cached merged configuration and everything else alone; the error of an
\* item whose generation fails is raised by the next read of the Base.
C8_AddOnlyQueues ==
    [][/\ last'.op = "add" =>
             /\ last'.ret = None
             /\ _to_merge' = [_to_merge EXCEPT ![last'.w] = Append(@, last'.arg)]
             /\ _dirty' = [_dirty EXCEPT ![last'.w] = TRUE]
             /\ heap' = heap
             /\ _config' = _config
             /\ _idaes_config' = _idaes_config
             /\ last'.gen = <<>> /\ last'.merged = <<>>
       /\ \A b \in Bases :
             (/\ last'.op = "idaes_config" /\ last'.w = b
              /\ \E i \in DOMAIN _to_merge[b] : IsErr(Fragment(_to_merge[b][i]))) =>
                 IsErr(last'.ret)]_vars
\* an item whose generation fails was added to a Base that has a merged
\* configuration
C8_Witness ==
    /\ last.op = "add" /\ last.arg = "r2" /\ last.ret = None
    /\ _idaes_config[last.w] # NoAddr

\* C9: a _merge call changes, in the Base's configuration, at most the
\* sections the merged item declares in merge_keys: `components` for a
\* Component, `equilibrium_reactions` / `rate_reactions` for a Reaction,
\* nothing for a Base; every other top-level key keeps its value.
C9_MergeTouchesOnlyMergeKeys ==
    \A i \in DOMAIN last.merged :
        last.merged[i].changed \subseteq {Str(k) : k \in MergeKeySet(last.merged[i].src)}

\* a record's storable fields: without `_id` and without
\* parameter_data.reaction_order
Storable(R) ==
    LET r1 == DelS(R, "_id")
    IN  IF HasS(r1, "parameter_data") /\ IsDict(GetS(r1, "parameter_data"))
        THEN PutS(r1, "parameter_data", DelS(GetS(r1, "parameter_data"), "reaction_order"))
        ELSE r1
\* every unit string of parameter_data replaced by the unit it denotes
UnitOfItem(it) ==
    IF IsDict(it) /\ HasS(it, "u") THEN PutS(it, "u", _build_units(GetS(it, "u"))) ELSE it
UnitsOfParam(l) ==
    IF IsList(l) THEN Lst([i \in DOMAIN l.e |-> UnitOfItem(l.e[i])]) ELSE l
UnitsDenoted(rec) ==
    IF HasS(rec, "parameter_data") /\ IsDict(GetS(rec, "parameter_data"))
    THEN LET pd == GetS(rec, "parameter_data")
         IN  PutS(rec, "parameter_data",
                  Dct([i \in DOMAIN pd.kv |-> KV(pd.kv[i].k, UnitsOfParam(pd.kv[i].v))]))
    ELSE rec

\* C10: for every well-formed component record R, the round trip
\* Component.from_idaes_config(Component(R).idaes_config) raises nothing and
\* yields exactly one Component whose json_data equals R's storable fields,
\* units compared as the unit they denote.
C10_ComponentRoundTrip ==
    rt.pc = "done" =>
        /\ ~IsErr(rt.result)
        /\ Len(rt.result.e) = 1
        /\ PyEq(UnitsDenoted(rt.result.e[1]), UnitsDenoted(Storable(rt.R)))

\* the records the round trip does return unchanged: those with
\* parameter_data and without elements and phase_equilibrium_form
RoundTripOfPlainRecords ==
    (/\ rt.pc = "done"
     /\ HasS(rt.R, "parameter_data")
     /\ ~HasS(rt.R, "elements")
     /\ ~HasS(rt.R, "phase_equilibrium_form")) =>
        /\ ~IsErr(rt.result)
        /\ Len(rt.result.e) = 1
        /\ PyEq(UnitsDenoted(rt.result.e[1]), UnitsDenoted(Storable(rt.R)))

\* ------------------------------------------------------------------------
\* Errors of the forward transform seen through the wrappers
\* ------------------------------------------------------------------------
\* the Reactions whose record has a `type` other than "equilibrium"
NonEquilibrium ==
    {w \in Reactions : HasS(Records[w], "type")
                        /\ GetS(Records[w], "type") # Str("equilibrium")}
Pending(b, w) == \E i \in DOMAIN _to_merge[b] : _to_merge[b][i] = w

ComponentEntry(config, name) == Get(GetS(config, "components"), name)

\* C12: a component record without `parameter_data` is transformed without
\* error.  The fragment holds the one section `components`; its entry under
\* the record's name has no `parameter_data`, no `elements`, no `name` and
\* no `_id`, carries the component type marker, holds every other field of
\* the record, and its tokens are replaced by the objects they denote.
C12_NoParameterData ==
    (rt.pc \in {"config", "done"} /\ ~HasS(rt.R, "parameter_data")) =>
        /\ ~IsErr(rt.config)
        /\ KeySet(rt.config) = {Str("components")}
        /\ KeySet(GetS(rt.config, "components")) = {GetS(rt.R, "name")}
        /\ LET entry == ComponentEntry(rt.config, GetS(rt.R, "name"))
           IN  /\ KeySet(entry) =
                    (KeySet(rt.R) \ {Str("_id"), Str("name"), Str("elements")})
                        \cup {Str("type")}
               /\ GetS(entry, "type") = IComponent
               /\ GetS(entry, "valid_phase_types") \in
                    {Obj("PhaseType.liquidPhase"), Obj("PhaseType.vaporPhase")}
               /\ HasS(entry, "dens_mol_liq_comp") =>
                    GetS(entry, "dens_mol_liq_comp") =
                        Obj(GetS(rt.R, "dens_mol_liq_comp").s)
               /\ HasS(entry, "phase_equilibrium_form") =>
                    GetS(entry, "phase_equilibrium_form") =
                        Dct(<<KV(Str("Vap"), Obj("fugacity")),
                              KV(Str("Liq"), Obj("fugacity"))>>)
\* such a record, with `elements` and `_id`, was transformed
C12_Witness ==
    /\ rt.pc = "config"
    /\ ~HasS(rt.R, "parameter_data")
    /\ HasS(rt.R, "elements") /\ HasS(rt.R, "_id")
    /\ HasS(rt.R, "dens_mol_liq_comp") /\ HasS(rt.R, "phase_equilibrium_form")
    /\ ~IsErr(rt.config)

\* ------------------------------------------------------------------------
\* Errors of from_idaes_config
\* ------------------------------------------------------------------------
\* the section the class expects, and the entries of the configuration
ExpectedSection(cls) ==
    IF cls = "Component" THEN "components" ELSE "equilibrium_reactions"
Entries(cls, config) ==
    LET sect == GetS(config, ExpectedSection(cls))
    IN  {sect.kv[i].v : i \in DOMAIN sect.kv}
\* the fields of an entry that are mapped back to a token
MappedBack(cls, e) ==
    IF cls = "Component"
    THEN {k \in KeySet(e) : k = Str("valid_phase_types") \/ EndsWith(k.s, "_comp")}
    ELSE {k \in KeySet(e) : ~IsStr(Get(e, k)) /\ ~IsDict(Get(e, k))}
KnownObject(cls, v) ==
    HasKey(SubstStrings(IF cls = "Component" THEN ThermoSubstituteValues
                        ELSE ReactionSubstituteValues), v)
\* the cases in which a bad-configuration error is due
BadConfigurationDue(cls, config) ==
    \/ ~HasS(config, ExpectedSection(cls))
    \/ \E e \in Entries(cls, config) :
          \/ cls = "Component" /\ (~HasS(e, "type") \/ GetS(e, "type") # IComponent)
          \/ ~HasS(e, "parameter_data")
          \/ \E k \in MappedBack(cls, e) :
                Hashable(Get(e, k)) /\ ~KnownObject(cls, Get(e, k))

\* C13: from_idaes_config raises BadConfiguration, and returns no list, when
\* the expected section is missing, a component entry has no or a wrong
\* `type`, an entry has no `parameter_data`, or a mapped-back field holds a
\* value without inverse mapping; and it never raises an error of any other
\* kind.
C13_OnlyBadConfiguration ==
    app.pc = "done" =>
        /\ BadConfigurationDue(app.cls, app.config)
              => app.result = Err("BadConfiguration")
        /\ IsErr(app.result) => app.result = Err("BadConfiguration")

\* ------------------------------------------------------------------------
\* json_data
\* ------------------------------------------------------------------------
\* C14: json_data is the pre-transform view.  Whenever it is called, before
\* or after the wrapper's idaes_config was computed or merged into a Base,
\* it returns a mapping of its own (not the record object) that holds
\* exactly the fields of the record the wrapper was constructed around
\* except `_id`, each with the record's original value, and the wrapper's
\* record still holds `_id` afterwards.
C14_JsonDataIsPreTransformView ==
    last.op = "json_data" =>
        LET R == Records[last.w]
        IN  /\ IsDict(last.ret)
            /\ KeySet(last.ret) = KeySet(R) \ {Str("_id")}
            /\ \A k \in KeySet(last.ret) : Get(last.ret, k) = Get(R, k)
            /\ heap[RecAddr(last.w)] = R
            /\ HasS(heap[RecAddr(last.w)], "_id")
\* json_data was read from a wrapper whose fragment had been computed and
\* merged into a Base
C14_Witness ==
    /\ last.op = "json_data"
    /\ HasS(Records[last.w], "_id")
    /\ _config[last.w] # NoAddr
    /\ \E b \in Bases :
          /\ last.w \in added[b]
          /\ _idaes_config[b] # NoAddr /\ ~_dirty[b]
          /\ HasS(MergedConfig(b), "components")

\* ------------------------------------------------------------------------
\* The identity key
\* ------------------------------------------------------------------------
\* the entries of the sections of a configuration
SectionEntries(config) ==
    UNION {{GetS(config, key).kv[i].v : i \in DOMAIN GetS(config, key).kv} :
              key \in {k \in SectionKeys : HasS(config, k)}}
NoIdentity(config) ==
    /\ ~HasS(config, "_id")
    /\ \A e \in SectionEntries(config) : IsDict(e) => ~HasS(e, "_id")

\* C15: the identity key never reaches a generated configuration.  The
\* fragment of every Component, Reaction and Base has no `_id` at its top
\* level nor in an entry of its sections, and no top-level `name`; the
\* merged configuration of a Base has no `_id` either, whatever was added.
C15_NoIdentityKey ==
    /\ \A w \in Wrappers :
          _config[w] # NoAddr =>
              /\ NoIdentity(Deref(heap, _config[w]))
              /\ ~HasS(Deref(heap, _config[w]), "name")
    /\ \A b \in Bases :
          _idaes_config[b] # NoAddr => NoIdentity(MergedConfig(b))
\* fragments of records with `_id` of all three classes exist, and a Base
\* merged a Component and a Base that carry `_id`
C15_Witness ==
    /\ \A w \in {"c1", "r1", "bA", "bB"} :
          HasS(Records[w], "_id") /\ _config[w] # NoAddr
    /\ {"c1", "bB"} \subseteq added["bA"]
    /\ ~_dirty["bA"]
    /\ HasS(MergedConfig("bA"), "components")

\* ------------------------------------------------------------------------
\* Result
\* ------------------------------------------------------------------------
Min(a, b) == IF a < b THEN a ELSE b

\* C16: Result is a lazy single pass over its source.  After k calls of
\* next exactly min(k, n) records of the n in the source were pulled, the
\* wrappers returned so far are those of the target class around the
\* records pulled, in source order, and the latest call returned the
\* wrapper around the record it pulled or, past the last record, raised the
\* source's StopIteration.
C16_LazySinglePass ==
    res.pc = "iter" =>
        /\ res.pulled = Min(res.calls, Len(res.src))
        /\ res.out = [i \in 1..res.pulled |->
                         [t |-> "wrapper", cls |-> res.cls, _data |-> res.src[i]]]
        /\ res.calls \in 1..Len(res.src) => res.ret = res.out[res.calls]
        /\ res.calls > Len(res.src) =>
              /\ res.ret = Err("StopIteration")
              /\ Len(res.out) = Len(res.src)
\* a source of three records was read to its end and once more
C16_Witness ==
    /\ res.pc = "iter"
    /\ Len(res.src) = MaxSource
    /\ res.src[1] # res.src[2]
    /\ res.calls = Len(res.src) + 1
    /\ res.ret = Err("StopIteration")
    /\ Len(res.out) = Len(res.src)

\* ------------------------------------------------------------------------
\* Parameter normalization and unit errors
\* ------------------------------------------------------------------------
\* the parameter entry of a component record and what it was normalized to
EntryOf(data) == GetS(GetS(data, "parameter_data"), "coeff")
Normalized(config) ==
    GetS(GetS(ComponentEntry(config, Str("H2O")), "parameter_data"), "coeff")
\* an element that is a mapping with both `u` and `v`
Complete(e) == IsDict(e) /\ HasS(e, "u") /\ HasS(e, "v")
Resolvable(u) == ~IsErr(_build_units(u))
\* a list entry of complete elements
ListOfComplete(entry) ==
    IsList(entry) /\ \A j \in DOMAIN entry.e : Complete(entry.e[j])
\* a list entry of complete elements whose units all resolve
Sound(entry) ==
    ListOfComplete(entry) /\ \A j \in DOMAIN entry.e : Resolvable(GetS(entry.e[j], "u"))
\* the unit strings of a record in the order the transform reads them:
\* base_units of a Base, the elements of a parameter list without
\* structural defect
UnitsRead(cls, data) ==
    IF cls = "Base"
    THEN [j \in DOMAIN GetS(data, "base_units").kv |-> GetS(data, "base_units").kv[j].v]
    ELSE IF cls = "Component" /\ ListOfComplete(EntryOf(data))
    THEN [j \in DOMAIN EntryOf(data).e |-> GetS(EntryOf(data).e[j], "u")]
    ELSE <<>>
Unresolved(units) == {j \in DOMAIN units : ~Resolvable(units[j])}
FirstOf(S) == CHOOSE j \in S : \A k \in S : j <= k

\* C17: a unit string that cannot be resolved is reported as the
\* unit-resolution error itself, in base_units of a Base, in a
\* single-element parameter entry and in an element of a multi-element
\* entry alike: idaes_config raises what _build_units raised for that
\* string, and the wrapper's _config stays unset.
C17_UnitErrorUnchanged ==
    (app.pc = "read" /\ Unresolved(UnitsRead(app.cls, app.data)) # {}) =>
        LET units == UnitsRead(app.cls, app.data)
        IN  /\ app.ret = _build_units(units[FirstOf(Unresolved(units))])
            /\ app._config = None

\* C18: a multi-element parameter entry in which some element lacks `u`,
\* lacks `v` or is not a mapping (the units that are given all resolve)
\* makes the transform raise ConfigGeneratorError and leaves no fragment.
C18_MalformedElementIsConfigError ==
    (/\ app.pc = "read" /\ app.cls = "Component"
     /\ IsList(EntryOf(app.data)) /\ Len(EntryOf(app.data).e) > 1
     /\ \E j \in DOMAIN EntryOf(app.data).e : ~Complete(EntryOf(app.data).e[j])
     /\ \A j \in DOMAIN EntryOf(app.data).e :
           LET e == EntryOf(app.data).e[j]
           IN  (IsDict(e) /\ HasS(e, "u")) => Resolvable(GetS(e, "u")))
    => (app.ret = Err("ConfigGeneratorError") /\ app._config = None)

\* the pair an element normalizes to
PairOf(e) == Tup(<<GetS(e, "v"), _build_units(GetS(e, "u"))>>)
\* the explicit indices of a list of elements, with multiplicity
Indexed(entry) == {j \in DOMAIN entry.e : HasS(entry.e[j], "i")}
DistinctIndices(entry) ==
    \A j, k \in Indexed(entry) :
        GetS(entry.e[j], "i") = GetS(entry.e[k], "i") => j = k

\* C19: the shape of normalized parameters.  A list of n > 1 elements with
\* distinct indices `i` becomes a mapping of exactly n entries, entry i
\* holding (v, unit(u)) of the element with index i; a single element,
\* given as a one-element list or as a bare {v, u} object, becomes the pair
\* (v, unit(u)); reaction_order given as phase -> species -> number becomes
\* a mapping keyed by (phase, species) with the same numbers.
C19_NormalizedShape ==
    app.pc = "read" =>
        /\ (/\ app.cls = "Component" /\ Sound(EntryOf(app.data))
            /\ Len(EntryOf(app.data).e) > 1
            /\ Indexed(EntryOf(app.data)) = DOMAIN EntryOf(app.data).e
            /\ DistinctIndices(EntryOf(app.data)))
           => /\ ~IsErr(app.ret)
              /\ IsDict(Normalized(app.ret))
              /\ Len(Normalized(app.ret).kv) = Len(EntryOf(app.data).e)
              /\ \A j \in DOMAIN EntryOf(app.data).e :
                    LET e == EntryOf(app.data).e[j]
                    IN  /\ HasKey(Normalized(app.ret), GetS(e, "i"))
                        /\ Get(Normalized(app.ret), GetS(e, "i")) = PairOf(e)
        /\ (/\ app.cls = "Component" /\ Sound(EntryOf(app.data))
            /\ Len(EntryOf(app.data).e) = 1)
           => /\ ~IsErr(app.ret)
              /\ Normalized(app.ret) = PairOf(EntryOf(app.data).e[1])
        /\ (/\ app.cls = "Component" /\ Complete(EntryOf(app.data))
            /\ Resolvable(GetS(EntryOf(app.data), "u")))
           => /\ ~IsErr(app.ret)
              /\ Normalized(app.ret) = PairOf(EntryOf(app.data))
        /\ app.cls = "Reaction"
           => /\ ~IsErr(app.ret)
              /\ LET ro == GetS(GetS(app.data, "parameter_data"), "reaction_order")
                     table == GetS(GetS(Get(GetS(app.ret, "equilibrium_reactions"),
                                            Str("R1")),
                                        "parameter_data"), "reaction_order")
                 IN  /\ KeySet(table) =
                          UNION {{Tup(<<ph, sp>>) : sp \in KeySet(Get(ro, ph))} :
                                    ph \in KeySet(ro)}
                     /\ \A ph \in KeySet(ro) : \A sp \in KeySet(Get(ro, ph)) :
                           Get(table, Tup(<<ph, sp>>)) = Get(Get(ro, ph), sp)

\* C20: no element of a multi-element parameter entry is lost.  For a list
\* of n > 1 complete elements with resolvable units whose explicit indices
\* are distinct, the normalized mapping has exactly n entries, the elements
\* with `i` keyed by their index.
C20_NoElementLost ==
    (/\ app.pc = "read" /\ app.cls = "Component"
     /\ Sound(EntryOf(app.data)) /\ Len(EntryOf(app.data).e) > 1
     /\ DistinctIndices(EntryOf(app.data)))
    => /\ ~IsErr(app.ret)
       /\ IsDict(Normalized(app.ret))
       /\ Len(Normalized(app.ret).kv) = Len(EntryOf(app.data).e)
       /\ \A j \in Indexed(EntryOf(app.data)) :
             Get(Normalized(app.ret), GetS(EntryOf(app.data).e[j], "i"))
                 = PairOf(EntryOf(app.data).e[j])

\* ------------------------------------------------------------------------
\* The dirty flag and the pending queue of a Base
\* ------------------------------------------------------------------------
FailedRead(b) == last.op = "idaes_config" /\ last.w = b /\ IsErr(last.ret)
\* reading the configuration of the item raises in the present state
RECURSIVE Raises(_)
Raises(item) ==
    \/ item \in NonEquilibrium
    \/ /\ item \in Bases
       /\ _dirty[item]
       /\ \E i \in DOMAIN _to_merge[item] : Raises(_to_merge[item][i])
Poisoned(b) == _dirty[b] /\ \E i \in DOMAIN _to_merge[b] : Raises(_to_merge[b][i])

\* C28: a failing item poisons a Base permanently.  A read of
\* Base.idaes_config that raises leaves the dirty flag set and the pending
\* queue as it was before the read; the Base then holds an item whose read
\* raises, no later step removes it, and every read of the Base made while
\* it holds such an item raises.
C28_FailingItemPoisonsBase ==
    [][\A b \in Bases :
          /\ FailedRead(b)' =>
                /\ _dirty'[b]
                /\ _to_merge'[b] = _to_merge[b]
                /\ Poisoned(b)'
          /\ Poisoned(b) =>
                /\ Poisoned(b)'
                /\ \A i \in DOMAIN _to_merge[b] : _to_merge'[b][i] = _to_merge[b][i]
                /\ (last'.op = "idaes_config" /\ last'.w = b) => IsErr(last'.ret)]_vars
\* a Base was read and raised, more was added to it, it was read again and
\* raised again, its queue holding the items added before and after
C28_Witness ==
    /\ FailedRead("bB")
    /\ Len(_to_merge["bB"]) = MaxQueue
    /\ _to_merge["bB"][1] \in NonEquilibrium
    /\ _to_merge["bB"][2] \notin NonEquilibrium
    /\ _dirty["bB"]

\* C30: a clear dirty flag implies an empty pending queue and an existing
\* merged configuration (so a non-empty queue implies dirty), and a Base is
\* dirty until its first successful read.
C30_BaseStateInvariant ==
    \A b \in Bases :
        /\ ~_dirty[b] => (_to_merge[b] = <<>> /\ _idaes_config[b] # NoAddr)
        /\ _to_merge[b] # <<>> => _dirty[b]
        /\ returned[b] = NoAddr => _dirty[b]
\* one Base is clean after a successful read while a read of the other has
\* just raised and left it dirty with its queue
C30_Witness ==
    /\ ~_dirty["bA"] /\ returned["bA"] # NoAddr /\ added["bA"] # {}
    /\ FailedRead("bB")
    /\ _dirty["bB"] /\ _to_merge["bB"] # <<>>

\* ------------------------------------------------------------------------
\* Reading early and reading late
\* ------------------------------------------------------------------------
\* the program state right after construction of the wrappers, with the
\* items `seq` added to Base b and nothing read
AllAdded(b, seq) ==
    [heap |-> [a \in {RecAddr(w) : w \in Wrappers} |->
                  Records[CHOOSE w \in Wrappers : RecAddr(w) = a]],
     config |-> [w \in Wrappers |-> NoAddr],
     idaes_config |-> [x \in Bases |-> NoAddr],
     to_merge |-> [x \in Bases |-> IF x = b THEN seq ELSE <<>>],
     dirty |-> [x \in Bases |-> TRUE],
     returned |-> [x \in Bases |-> NoAddr],
     gen |-> <<>>, merged |-> <<>>]
\* what a single read after all the adds returns
ReadAtEnd(b, seq) ==
    LET r == BaseConfig(AllAdded(b, seq), b)
    IN  IF IsErr(r.ret) THEN r.ret ELSE Deref(r.st.heap, r.ret.a)

\* C29: the merged configuration depends on the order of the adds only.
\* Whenever a read of the Base has succeeded, with whatever reads made
\* between the add() calls before, the configuration it returned equals the
\* one a single read after the same adds returns.
C29_ReadTimingIrrelevant ==
    (app.pc = "adds" /\ SuccessfulRead(OrderBase)) =>
        MergedConfig(OrderBase) = ReadAtEnd(OrderBase, app.seq[OrderBase])
\* the final read merged only the last items: the earlier ones were merged
\* by reads made between the adds
C29_Witness ==
    /\ app.pc = "adds" /\ SuccessfulRead(OrderBase)
    /\ Len(app.seq[OrderBase]) = MaxAdds
    /\ Len(last.merged) = 1
    /\ \E i, j \in DOMAIN app.seq[OrderBase] :
          app.seq[OrderBase][i] \in Components /\ app.seq[OrderBase][j] \in Reactions
    /\ app.seq[OrderBase][1] # app.seq[OrderBase][2]

\* ------------------------------------------------------------------------
\* The inverse conversion of parameter_data
\* ------------------------------------------------------------------------
\* the parameter_data of the one entry of the configuration
ParametersOf(cls, config) ==
    GetS(GetS(config, ExpectedSection(cls)).kv[1].v, "parameter_data")
\* the configuration with the parameters of its entry taken out
WithoutParameters(cls, config) ==
    LET sect == GetS(config, ExpectedSection(cls))
    IN  PutS(config, ExpectedSection(cls),
             Put(sect, sect.kv[1].k, PutS(sect.kv[1].v, "parameter_data", EmptyDict)))
\* the three shapes that are converted
IsPair(v) == IsTuple(v) /\ Len(v.e) = 2
TupleKeyed(v) ==
    IsDict(v) /\ v.kv # <<>> /\ \A j \in DOMAIN v.kv : IsTuple(v.kv[j].k)
ScalarKeyed(v) ==
    IsDict(v) /\ v.kv # <<>> /\ \A j \in DOMAIN v.kv : v.kv[j].k.t \in {"int", "str"}
Convertible(p, v) ==
    IsPair(v) \/ ScalarKeyed(v) \/ (TupleKeyed(v) /\ p = Str("reaction_order"))
\* what a parameter is converted to
AsInt(k) == IF IsStr(k) /\ IsDigits(k.s) THEN IntV(DigitsVal(k.s, 0)) ELSE k
VU1(pair) == Dct(Field("v", pair.e[1]) \o Field("u", Str(pair.e[2].u)))
Converted(v) ==
    IF IsPair(v) THEN Lst(<<VU1(v)>>)
    ELSE Lst([j \in DOMAIN v.kv |->
                 Dct(Field("i", AsInt(v.kv[j].k)) \o VU1(v.kv[j].v).kv)])

\* C21: the inverse parameter conversion turns a (value, unit) pair into a
\* one-element list [{v, u}], a scalar-keyed mapping into a list of
\* {i, v, u} in the mapping's order with i made an integer where possible,
\* and leaves out a tuple-keyed mapping under `reaction_order`; any other
\* value raises BadConfiguration, so that every parameter but
\* `reaction_order` is in the output whenever there is one.
C21_InverseParameterShapes ==
    (/\ app.pc = "done"
     /\ HasS(app.config, ExpectedSection(app.cls))
     /\ HasS(GetS(app.config, ExpectedSection(app.cls)).kv[1].v, "parameter_data")
     /\ ~IsErr(from_idaes_config(app.cls, WithoutParameters(app.cls, app.config))))
    => LET pd == ParametersOf(app.cls, app.config)
       IN  IF \E j \in DOMAIN pd.kv : ~Convertible(pd.kv[j].k, pd.kv[j].v)
           THEN app.result = Err("BadConfiguration")
           ELSE /\ ~IsErr(app.result)
                /\ LET out == GetS(app.result.e[1], "parameter_data")
                   IN  /\ Keys(out) =
                            SelectSeq(Keys(pd), LAMBDA p : p # Str("reaction_order"))
                       /\ \A p \in KeySet(out) : Get(out, p) = Converted(Get(pd, p))


\* ------------------------------------------------------------------------
\* Stoichiometry
\* ------------------------------------------------------------------------
\* the (phase, species) pairs of a nested stoichiometry mapping
PhaseSpeciesPairs(stoich) ==
    UNION {{Tup(<<ph, sp>>) : sp \in KeySet(Get(stoich, ph))} : ph \in KeySet(stoich)}

EveryPhaseHasSpecies(stoich) == \A ph \in KeySet(stoich) : ~Falsy(Get(stoich, ph))

\* the stoichiometry entry of the generated reaction R1
FlatStoichiometry(config) ==
    GetS(GetS(GetS(config, "equilibrium_reactions"), "R1"), "stoichiometry")

\* C22: for a nested stoichiometry mapping in which every phase has a
\* species, idaes_config holds one entry per (phase, species) pair with the
\* number of that pair, and from_idaes_config of that configuration gives a
\* record whose stoichiometry equals the original mapping
C22_StoichiometryRoundTrip ==
    (rt.pc \in {"flattened", "rebuilt"}
     /\ EveryPhaseHasSpecies(GetS(rt.R, "stoichiometry")))
    => LET stoich == GetS(rt.R, "stoichiometry")
       IN  /\ ~IsErr(rt.config)
           /\ With(FlatStoichiometry(rt.config), LAMBDA flat :
                 /\ IsDict(flat)
                 /\ KeySet(flat) = PhaseSpeciesPairs(stoich)
                 /\ Len(flat.kv) = Cardinality(PhaseSpeciesPairs(stoich))
                 /\ \A key \in KeySet(flat) :
                       Get(flat, key) = Get(Get(stoich, key.e[1]), key.e[2]))
           /\ rt.pc = "rebuilt"
              => /\ ~IsErr(rt.result)
                 /\ Len(rt.result.e) = 1
                 /\ HasS(rt.result.e[1], "stoichiometry")
                 /\ PyEq(GetS(rt.result.e[1], "stoichiometry"), stoich)

\* a stoichiometry with two phases, one of them with two species, has been
\* flattened and rebuilt
C22_Witness ==
    /\ rt.pc = "rebuilt"
    /\ EveryPhaseHasSpecies(GetS(rt.R, "stoichiometry"))
    /\ Len(GetS(rt.R, "stoichiometry").kv) = 2
    /\ Cardinality(PhaseSpeciesPairs(GetS(rt.R, "stoichiometry"))) >= 3
    /\ ~IsErr(rt.result)


\* ------------------------------------------------------------------------
\* The substitution step
\* ------------------------------------------------------------------------
\* the value a token stands for in a literal table
Mapped(table, x) == IF HasKey(table, x) THEN Get(table, x) ELSE x

\* a field's value with every token replaced: a sequence elementwise, a
\* single token by itself
Substituted(table, v) ==
    IF IsList(v) THEN Lst([i \in DOMAIN v.e |-> Mapped(table, v.e[i])])
    ELSE Mapped(table, v)

MethodTable == ThermoSubstituteValues[2].subst
PhaseTypeTable == ThermoSubstituteValues[1].subst

\* C23: after the substitution step on a component record, every key that
\* matches *_comp holds its value with the tokens replaced, a single token
\* and a sequence of tokens alike, and every other key that no path names
\* holds the value it had
C23_WildcardCoverage ==
    (app.pc = "once" /\ app.cls = "Component")
    => /\ ~IsErr(app.once)
       /\ Keys(app.once) = Keys(app.data)
       /\ \A k \in KeySet(app.data) :
             IF FnMatchCase(k.s, "*_comp")
             THEN Get(app.once, k) = Substituted(MethodTable, Get(app.data, k))
             ELSE k # Str("valid_phase_types") => Get(app.once, k) = Get(app.data, k)

\* C25: after the substitution step on a record without unit fields, the
\* step has not failed and every field a literal table is given for holds
\* its value with the tokens of the table replaced and the others kept, a
\* scalar as a scalar and a sequence as a sequence of the same length
C25_LiteralTableShape ==
    (app.pc = "once" /\ ~HasS(app.data, "base_units"))
    => /\ ~IsErr(app.once)
       /\ Keys(app.once) = Keys(app.data)
       /\ \A i \in DOMAIN SubstituteValuesOf(app.cls) :
             LET path == Split(SubstituteValuesOf(app.cls)[i].path)
                 table == SubstituteValuesOf(app.cls)[i].subst
             IN  (Len(path) = 1 /\ dicty(table))
                 => \A k \in KeySet(app.data) :
                       FnMatchCase(k.s, path[1])
                       => LET old == Get(app.data, k)
                              new == Get(app.once, k)
                          IN  /\ new = Substituted(table, old)
                              /\ IsList(new) = IsList(old)
                              /\ IsList(old) => Len(new.e) = Len(old.e)

\* a dotted path leads nowhere in a record: a segment is absent or its value
\* is not a mapping, or the mapping reached has no key for the last segment
RECURSIVE Absent(_, _)
Absent(d, key_list) ==
    IF ~dicty(d) THEN TRUE
    ELSE IF Len(key_list) > 1
    THEN ~HasS(d, key_list[1]) \/ Absent(GetS(d, key_list[1]), Tail(key_list))
    ELSE IF HasStar(key_list[1])
    THEN \A k \in KeySet(d) : ~FnMatchCase(k.s, key_list[1])
    ELSE ~HasS(d, key_list[1])

AllAbsent(cls, data) ==
    \A i \in DOMAIN SubstituteValuesOf(cls) :
        Absent(data, Split(SubstituteValuesOf(cls)[i].path))

\* C26: the substitution for a path that leads nowhere in the record gives
\* the record back as it was, and a record in which no path of its class
\* leads anywhere is unchanged by the whole step; no error is raised
C26_AbsentPathIsSilent ==
    app.pc = "once"
    => /\ \A i \in DOMAIN SubstituteValuesOf(app.cls) :
             With(SubstituteValuesOf(app.cls)[i], LAMBDA sv :
                Absent(app.data, Split(sv.path))
                => SubstPath(app.data, Split(sv.path), sv.subst) = app.data)
       /\ AllAbsent(app.cls, app.data) => app.once = app.data

\* the step ran on a Base record whose `phases` has the phase Liq, which is
\* not a mapping, and on which no other path leads anywhere
C26_Witness ==
    /\ app.pc = "once"
    /\ app.cls = "Base"
    /\ HasS(app.data, "phases")
    /\ dicty(GetS(app.data, "phases"))
    /\ HasS(GetS(app.data, "phases"), "Liq")
    /\ ~dicty(GetS(GetS(app.data, "phases"), "Liq"))
    /\ AllAbsent("Base", app.data)
    /\ app.once = app.data

\* the record's only substituted fields are the unit fields of base_units
OnlyUnits(data) ==
    /\ HasS(data, "base_units")
    /\ dicty(GetS(data, "base_units"))
    /\ ~HasS(data, "state_definition")
    /\ Absent(data, Split("phases.Liq.type"))
    /\ Absent(data, Split("phases.Liq.equation_of_state"))

\* C24: on a record whose substituted fields are unit fields only, a second
\* substitution step after a first one that did not fail raises no error
\* and leaves every field with the value the first one gave it
C24_UnitSubstitutionIdempotent ==
    (app.pc = "twice" /\ OnlyUnits(app.data))
    => /\ ~IsErr(app.twice)
       /\ app.twice = app.once

\* the step ran twice on a record with two unit fields, both of which the
\* first step turned into unit objects
C24_Witness ==
    /\ app.pc = "twice"
    /\ OnlyUnits(app.data)
    /\ Len(GetS(app.data, "base_units").kv) >= 2
    /\ \E k \in KeySet(GetS(app.once, "base_units")) :
          /\ IsStr(Get(GetS(app.data, "base_units"), k))
          /\ Get(GetS(app.once, "base_units"), k).t = "unit"
          /\ Get(GetS(app.twice, "base_units"), k) = Get(GetS(app.once, "base_units"), k)


\* ------------------------------------------------------------------------
\* Section wrapping
\* ------------------------------------------------------------------------
\* the section of the record is absent, or a mapping without the name
Wrappable(section, data) ==
    HasS(data, section)
    => /\ IsDict(GetS(data, section))
       /\ ~HasKey(GetS(data, section), GetS(data, "name"))

\* the fields of a record that wrapping leaves out of the named entry
LeftOut(section) ==
    {Str("name"), Str("base_units"), Str("reaction_type"), Str("components"),
     Str("reactant_elements"), Str(section), Str("_id")}

\* C27: wrapping a record named N under a section S that does not hold N
\* gives a mapping with no top-level key other than base_units and S, in
\* which S[N] holds exactly the record's fields other than name, base_units,
\* reaction_type, components, reactant_elements, S and _id with their
\* values, and base_units its value; the fragment of a component has the
\* entry components[N] and that of a reaction equilibrium_reactions[N]
C27_WrappedShape ==
    (app.pc \in {"wrapped", "fragment"} /\ Wrappable(SectionOf(app.cls), app.data))
    => LET S == SectionOf(app.cls)
           N == GetS(app.data, "name")
       IN  /\ ~IsErr(app.wrapped)
           /\ KeySet(app.wrapped) \subseteq {Str("base_units"), Str(S)}
           /\ HasS(app.wrapped, S)
           /\ IsDict(GetS(app.wrapped, S))
           /\ HasKey(GetS(app.wrapped, S), N)
           /\ With(Get(GetS(app.wrapped, S), N), LAMBDA entry :
                 /\ IsDict(entry)
                 /\ KeySet(entry) = KeySet(app.data) \ LeftOut(S)
                 /\ Len(entry.kv) = Cardinality(KeySet(entry))
                 /\ \A k \in KeySet(entry) : Get(entry, k) = Get(app.data, k))
           /\ HasS(app.data, "base_units")
              => /\ HasS(app.wrapped, "base_units")
                 /\ GetS(app.wrapped, "base_units") = GetS(app.data, "base_units")
           /\ app.pc = "fragment"
              => /\ ~IsErr(app.config)
                 /\ HasS(app.config, S)
                 /\ HasKey(GetS(app.config, S), N)

\* a record with an identity, base units, special fields and plain fields
\* was wrapped under a section that held another entry, and its fragment
\* was generated
C27_Witness ==
    /\ app.pc = "fragment"
    /\ Wrappable(SectionOf(app.cls), app.data)
    /\ HasS(app.data, SectionOf(app.cls))
    /\ GetS(app.data, SectionOf(app.cls)) # Dct(<<>>)
    /\ HasS(app.data, "_id")
    /\ HasS(app.data, "base_units")
    /\ HasS(app.data, "reactant_elements")
    /\ HasS(app.data, "_note")
    /\ ~IsErr(app.wrapped)
    /\ ~IsErr(app.config)

====
